---- MODULE Spec2Model ----
(***************************************************************************)
(* Airline management REST API (Express + PostgreSQL).                     *)
(*                                                                         *)
(* The state is the relational store (eight tables), the DDL that was used *)
(* to create it, and the requests the server is handling.  Every route     *)
(* handler is a sequence of `await pool.query(...)` statements; one step   *)
(* of a handler is one statement executed by the store together with the   *)
(* synchronous JavaScript that follows it up to the next await.            *)
(***************************************************************************)
EXTENDS Integers, Sequences, FiniteSets, TLC

VARIABLES
    schema,   \* which of the repository's two DDL scripts created the tables
    db,       \* the store: one field per table
    req,      \* request slot -> the request being handled in it
    left,     \* number of requests the clients have yet to send
    pool      \* connection of the pg Pool -> its state and whether it is
              \* inside an open transaction

vars == <<schema, db, req, left, pool>>

-----------------------------------------------------------------------------
(* Bounds of the model.                                                    *)

\* requests sent in a run in which the handlers of a few routes take part
MaxServed == 2
\* requests sent in a run in which the handlers of all routes take part
MaxServedAll == 1
\* requests sent in a run whose requests are handled concurrently
MaxRaced == 2
\* requests the server handles at the same time
MaxInFlight == 2

-----------------------------------------------------------------------------
(* JavaScript and SQL values.  All request fields are strings.             *)

\* a field that is absent from req.body (or from req.params)
UNDEF == "undefined"
\* SQL NULL as stored in a column
NULL == "NULL"
\* an id that is in no table
UnknownId == "x0"

\* `!v` is false: JavaScript truthiness of a string-or-undefined value
Truthy(v) == v \notin {UNDEF, NULL, ""}

\* node-postgres sends an undefined query parameter as NULL
ToSql(v) == IF v = UNDEF THEN NULL ELSE v

\* the id uuidv4() returns to the request admitted when n are yet to be sent
Uuid(n) == "u" \o ToString(n)

\* what new Date() returns in the handler of that request; "t0" is a time
\* before the server started
Clock(n) == "t" \o ToString(n)

-----------------------------------------------------------------------------
(* Timestamps.  A request carries departure_time / arrival_time as text.   *)
(* JavaScript parses the text to an instant (`new Date(text)`), the store  *)
(* parses the same text as TIMESTAMP [WITHOUT TIME ZONE], which drops any  *)
(* zone designator.  Hours of 2023-06-01; NaN stands for Invalid Date.     *)

NaN == -1

TimeTexts == {"garbage", "2023-06-01T08:00:00Z", "2023-06-01T09:00:00Z",
              "2023-06-01T10:00:00+05:00"}

\* new Date(text).getTime(), in hours UTC
JsDate(text) ==
    CASE text = "2023-06-01T08:00:00Z"      -> 8
      [] text = "2023-06-01T09:00:00Z"      -> 9
      [] text = "2023-06-01T10:00:00+05:00" -> 5
      [] OTHER                              -> NaN

\* departureDate >= arrivalDate on two Date objects (false when either is NaN)
JsDateGeq(a, b) == a # NaN /\ b # NaN /\ a >= b

\* timestamp_in: the wall-clock hour stored in a TIMESTAMP column, NaN = error
PgTimestamp(text) ==
    CASE text = "2023-06-01T08:00:00Z"      -> 8
      [] text = "2023-06-01T09:00:00Z"      -> 9
      [] text = "2023-06-01T10:00:00+05:00" -> 10
      [] OTHER                              -> NaN

\* int4in: the integer an INTEGER column holds for a parameter sent as text,
\* written as PostgreSQL prints it; "error" when the text is no integer
PgInteger(text) ==
    CASE text = NULL    -> NULL
      [] text = "1950"  -> "1950"
      [] text = "01950" -> "1950"
      [] OTHER          -> "error"

-----------------------------------------------------------------------------
(* The store.                                                              *)

\* the README's DDL and the implementation plan's DDL
Schemas == {"readme", "plan"}

\* the primary keys of table t
Ids(t) == DOMAIN t

\* table t with the row of key id written, and with the rows of keys ids deleted
Put(t, id, row) == [x \in DOMAIN t \cup {id} |-> IF x = id THEN row ELSE t[x]]
Drop(t, ids) == [x \in DOMAIN t \ ids |-> t[x]]

\* the README's tables created without their REFERENCES clauses: a store that
\* enforces no foreign key
Bare == "bare"

\* a foreign-key column holds NULL or the key of a row of the referenced table
RefOk(sc, t, v) == sc = Bare \/ v = NULL \/ v \in DOMAIN t

\* result of a statement: the store afterwards, or an error raised by the store
Ok(d) == [err |-> FALSE, db |-> d]
Err(d) == [err |-> TRUE, db |-> d]

\* DELETE FROM t WHERE id = $1 when nothing refers to table t
DropRow(d, t, id) == Ok([d EXCEPT ![t] = Drop(d[t], {id})])

\* CONSTRAINT unique_flight_seat UNIQUE (flight_id, seat_number): only in the
\* plan's DDL; rows whose seat_number is NULL never conflict
SeatConstraint(sc, d, id, row) ==
    sc = "plan" =>
        \A b \in DOMAIN d.booking \ {id} :
            ~(/\ row.seat_number # NULL
              /\ d.booking[b].seat_number = row.seat_number
              /\ d.booking[b].flight_id = row.flight_id)

\* column and foreign-key constraints of table booking
BookingConstraints(sc, d, id, row) ==
    /\ sc = "plan" => row.flight_id # NULL /\ row.passenger_id # NULL
    /\ RefOk(sc, d.flight, row.flight_id)
    /\ RefOk(sc, d.passenger, row.passenger_id)
    /\ SeatConstraint(sc, d, id, row)

\* INSERT INTO booking / UPDATE booking ... WHERE id = $n
WriteBooking(sc, d, id, row) ==
    IF BookingConstraints(sc, d, id, row)
    THEN Ok([d EXCEPT !.booking = Put(d.booking, id, row)])
    ELSE Err(d)

\* column constraints of table passenger (email is not declared UNIQUE)
PassengerConstraints(sc, d, id, row) ==
    row.first_name # NULL /\ row.last_name # NULL

WritePassenger(sc, d, id, row) ==
    IF PassengerConstraints(sc, d, id, row)
    THEN Ok([d EXCEPT !.passenger = Put(d.passenger, id, row)])
    ELSE Err(d)

-----------------------------------------------------------------------------
(* Requests and responses.                                                 *)

Idle == [pc |-> "idle"]

\* a request as Express hands it to a router: the id is the text after the
\* mount path ("" for the collection itself)
\* (pre is the store at the moment the request is admitted; uuid and now are
\* the values uuidv4() and new Date() will return to this request's handler)
Request(method, mount, id, body, n, d) ==
    [pc |-> "start", method |-> method, mount |-> mount, id |-> id,
     body |-> body, uuid |-> Uuid(n), now |-> Clock(n), loc |-> NULL, pre |-> d,
     resp |-> [status |-> 0, message |-> "", data |-> NULL]]

\* res.status(s).json({ message, data }) and the handler returns
Reply(d, q, status, message) ==
    [db |-> d,
     req |-> [q EXCEPT !.pc = "done",
                       !.resp = [status |-> status, message |-> message,
                                 data |-> NULL]]]

ReplyData(d, q, status, message, data) ==
    [db |-> d,
     req |-> [q EXCEPT !.pc = "done",
                       !.resp = [status |-> status, message |-> message,
                                 data |-> data]]]

\* the handler awaits its next statement
Goto(d, q, pc) == [db |-> d, req |-> [q EXCEPT !.pc = pc]]

\* catch (error) { res.status(500).json({ error: error.message }) }
Caught(d, q) == Reply(d, q, 500, "error")

\* a write statement: the catch block on an error, `after` otherwise
Written(res, q, status, message) ==
    IF res.err THEN Caught(res.db, q) ELSE Reply(res.db, q, status, message)

-----------------------------------------------------------------------------
(* routes/bookings.js                                                      *)

SeatTakenMsg == "This seat is already booked"

\* the seat query without its `AND id != $3`
SeatRowsAnyId(d, flight_id, seat_number, except) ==
    {b \in DOMAIN d.booking :
        /\ d.booking[b].flight_id = flight_id
        /\ d.booking[b].seat_number = seat_number}

\* SELECT * FROM booking WHERE flight_id = $1 AND seat_number = $2 [AND id != $3]
SeatRows(d, flight_id, seat_number, except) ==
    {b \in DOMAIN d.booking \ except :
        /\ d.booking[b].flight_id = flight_id
        /\ d.booking[b].seat_number = seat_number}

\* router.post('/')
BookingsPost(sc, d, q) ==
    LET b == q.body IN
    CASE q.pc = "start" ->
           IF ~Truthy(b.flight_id) \/ ~Truthy(b.passenger_id)
           THEN Reply(d, q, 400, "Flight ID and passenger ID are required")
           ELSE IF b.flight_id \notin Ids(d.flight)
           THEN Reply(d, q, 400, "Flight does not exist")
           ELSE Goto(d, q, "selPassenger")
      [] q.pc = "selPassenger" ->
           IF b.passenger_id \notin Ids(d.passenger)
           THEN Reply(d, q, 400, "Passenger does not exist")
           ELSE IF Truthy(b.seat_number) THEN Goto(d, q, "selSeat")
           ELSE Goto(d, q, "write")
      [] q.pc = "selSeat" ->
           IF SeatRows(d, b.flight_id, b.seat_number, {}) # {}
           THEN Reply(d, q, 400, SeatTakenMsg)
           ELSE Goto(d, q, "write")
      [] q.pc = "write" ->
           Written(WriteBooking(sc, d, q.uuid,
                     [flight_id |-> b.flight_id,
                      passenger_id |-> b.passenger_id,
                      booking_date |-> q.now,
                      seat_number |-> ToSql(b.seat_number),
                      booking_status |->
                          IF Truthy(b.booking_status) THEN b.booking_status
                          ELSE "Confirmed"]),
                   q, 201, "Booking created successfully")

\* the update with booking_date = new Date() among its SET columns
RefreshedBooking(d, q) ==
    [flight_id |-> q.body.flight_id,
     passenger_id |-> q.body.passenger_id,
     booking_date |-> q.now,
     seat_number |-> ToSql(q.body.seat_number),
     booking_status |-> ToSql(q.body.booking_status)]

\* UPDATE booking SET flight_id = $1, passenger_id = $2, seat_number = $3,
\* booking_status = $4, price = $5 WHERE id = $6: the row afterwards; a column
\* that is not set keeps its value
UpdatedBooking(d, q) ==
    [d.booking[q.id] EXCEPT !.flight_id = q.body.flight_id,
                            !.passenger_id = q.body.passenger_id,
                            !.seat_number = ToSql(q.body.seat_number),
                            !.booking_status = ToSql(q.body.booking_status)]

\* router.put('/:id')
BookingsPut(sc, d, q) ==
    LET b == q.body IN
    CASE q.pc = "start" ->
           IF q.id \notin Ids(d.booking)
           THEN Reply(d, q, 404, "Booking not found")
           ELSE IF ~Truthy(b.flight_id) \/ ~Truthy(b.passenger_id)
           THEN Reply(d, q, 400, "Flight ID and passenger ID are required")
           ELSE Goto(d, q, "selFlight")
      [] q.pc = "selFlight" ->
           IF b.flight_id \notin Ids(d.flight)
           THEN Reply(d, q, 400, "Flight does not exist")
           ELSE Goto(d, q, "selPassenger")
      [] q.pc = "selPassenger" ->
           IF b.passenger_id \notin Ids(d.passenger)
           THEN Reply(d, q, 400, "Passenger does not exist")
           ELSE IF Truthy(b.seat_number) THEN Goto(d, q, "selSeat")
           ELSE Goto(d, q, "write")
      [] q.pc = "selSeat" ->
           IF SeatRows(d, b.flight_id, b.seat_number, {q.id}) # {}
           THEN Reply(d, q, 400, SeatTakenMsg)
           ELSE Goto(d, q, "write")
      [] q.pc = "write" ->
           \* UPDATE ... WHERE id = $6 matches no row when the booking is gone
           IF q.id \notin Ids(d.booking)
           THEN Reply(d, q, 200, "Booking updated successfully")
           ELSE Written(WriteBooking(sc, d, q.id, UpdatedBooking(d, q)),
                        q, 200, "Booking updated successfully")

\* router.delete('/:id')
BookingsDelete(sc, d, q) ==
    CASE q.pc = "start" ->
           IF q.id \notin Ids(d.booking)
           THEN Reply(d, q, 404, "Booking not found")
           ELSE Goto(d, q, "write")
      [] q.pc = "write" ->
           Reply([d EXCEPT !.booking = Drop(d.booking, {q.id})], q, 200,
                 "Booking deleted successfully")

-----------------------------------------------------------------------------
(* routes/passengers.js                                                    *)

\* the email query without its `AND id != $2`
EmailRowsAnyId(d, email, except) ==
    {p \in DOMAIN d.passenger : d.passenger[p].email = email}

\* SELECT * FROM passenger WHERE email = $1 [AND id != $2]
EmailRows(d, email, except) ==
    {p \in DOMAIN d.passenger \ except : d.passenger[p].email = email}

PassengerRow(b) ==
    [first_name |-> ToSql(b.first_name), last_name |-> ToSql(b.last_name),
     email |-> ToSql(b.email)]

\* router.post('/')
PassengersPost(sc, d, q) ==
    LET b == q.body IN
    CASE q.pc = "start" ->
           IF ~Truthy(b.first_name) \/ ~Truthy(b.last_name) \/ ~Truthy(b.email)
           THEN Reply(d, q, 400, "First name, last name, and email are required")
           ELSE IF EmailRows(d, b.email, {}) # {}
           THEN Reply(d, q, 400, "A passenger with this email already exists")
           ELSE Goto(d, q, "write")
      [] q.pc = "write" ->
           Written(WritePassenger(sc, d, q.uuid, PassengerRow(b)),
                   q, 201, "Passenger created successfully")

\* router.put('/:id')
PassengersPut(sc, d, q) ==
    LET b == q.body IN
    CASE q.pc = "start" ->
           IF ~Truthy(b.first_name) \/ ~Truthy(b.last_name) \/ ~Truthy(b.email)
           THEN Reply(d, q, 400, "First name, last name, and email are required")
           ELSE IF q.id \notin Ids(d.passenger)
           THEN Reply(d, q, 404, "Passenger not found")
           ELSE Goto(d, q, "selEmail")
      [] q.pc = "selEmail" ->
           IF EmailRows(d, b.email, {q.id}) # {}
           THEN Reply(d, q, 400, "Another passenger with this email already exists")
           ELSE Goto(d, q, "write")
      [] q.pc = "write" ->
           IF q.id \notin Ids(d.passenger)
           THEN Reply(d, q, 200, "Passenger updated successfully")
           ELSE Written(WritePassenger(sc, d, q.id, PassengerRow(b)),
                        q, 200, "Passenger updated successfully")

\* rows of table booking that reference passenger id
BookingsOfPassenger(d, id) ==
    {b \in DOMAIN d.booking : d.booking[b].passenger_id = id}

\* DELETE FROM passenger WHERE id = $1: the readme's foreign keys refuse while
\* a booking references the row, the plan's cascade to the bookings
DeletePassenger(sc, d, id) ==
    IF sc = Bare THEN DropRow(d, "passenger", id)
    ELSE IF sc = "readme" /\ BookingsOfPassenger(d, id) # {}
    THEN Err(d)
    ELSE Ok([d EXCEPT !.passenger = Drop(d.passenger, {id}),
                      !.booking = Drop(d.booking, BookingsOfPassenger(d, id))])

\* router.delete('/:id')
PassengersDelete(sc, d, q) ==
    CASE q.pc = "start" ->
           IF q.id \notin Ids(d.passenger)
           THEN Reply(d, q, 404, "Passenger not found")
           ELSE Goto(d, q, "count")
      [] q.pc = "count" ->
           IF Cardinality(BookingsOfPassenger(d, q.id)) > 0
           THEN ReplyData(d, q, 400, "Cannot delete passenger with related bookings",
                          [bookings |-> Cardinality(BookingsOfPassenger(d, q.id))])
           ELSE Goto(d, q, "write")
      [] q.pc = "write" ->
           Written(DeletePassenger(sc, d, q.id), q, 200,
                   "Passenger deleted successfully")

-----------------------------------------------------------------------------
(* Rows that reference a row, and the DELETE statements of the parents.    *)

FlightsOfAirline(d, id) == {f \in DOMAIN d.flight : d.flight[f].airline_id = id}
AircraftOfAirline(d, id) == {a \in DOMAIN d.aircraft : d.aircraft[a].airline_id = id}
\* the crew query matching the crew member's id instead of its airline_id
CrewOfAirlineById(d, id) == {c \in DOMAIN d.crew_member : c = id}
CrewOfAirline(d, id) == {c \in DOMAIN d.crew_member : d.crew_member[c].airline_id = id}
FlightsOfAircraft(d, id) == {f \in DOMAIN d.flight : d.flight[f].aircraft_id = id}
DeparturesOf(d, id) == {f \in DOMAIN d.flight : d.flight[f].departure_airport_id = id}
\* ArrivalsOf counting the departure column
ArrivalsByDeparture(d, id) ==
    {f \in DOMAIN d.flight : d.flight[f].departure_airport_id = id}
ArrivalsOf(d, id) == {f \in DOMAIN d.flight : d.flight[f].arrival_airport_id = id}
BookingsOfFlight(d, id) == {b \in DOMAIN d.booking : d.booking[b].flight_id = id}
CrewRowsOfFlight(d, id) == {x \in d.flight_crew : x.flight_id = id}
CrewRowsOfMember(d, id) == {x \in d.flight_crew : x.crew_member_id = id}

\* the rows of flights fs go, and with them (ON DELETE CASCADE) their bookings
\* and flight_crew rows
CascadeFlights(d, fs) ==
    [d EXCEPT !.flight = Drop(d.flight, fs),
              !.booking = Drop(d.booking,
                               {b \in DOMAIN d.booking : d.booking[b].flight_id \in fs}),
              !.flight_crew = {x \in d.flight_crew : x.flight_id \notin fs}]

\* DELETE FROM flight WHERE id = $1 with no foreign key referring to flight
DeleteFlightUnchecked(sc, d, id) == DropRow(d, "flight", id)

\* DELETE FROM flight WHERE id = $1
DeleteFlight(sc, d, id) ==
    IF sc = Bare THEN DropRow(d, "flight", id)
    ELSE IF sc = "readme" /\ (BookingsOfFlight(d, id) # {} \/ CrewRowsOfFlight(d, id) # {})
    THEN Err(d)
    ELSE Ok(CascadeFlights(d, {id} \cap DOMAIN d.flight))

\* DELETE FROM airline WHERE id = $1 (plan: aircraft and crew SET NULL,
\* flights CASCADE)
DeleteAirline(sc, d, id) ==
    IF sc = Bare THEN DropRow(d, "airline", id)
    ELSE IF sc = "readme" /\ (AircraftOfAirline(d, id) # {} \/ FlightsOfAirline(d, id) # {}
                          \/ CrewOfAirline(d, id) # {})
    THEN Err(d)
    ELSE LET d1 == CascadeFlights(d, FlightsOfAirline(d, id)) IN
         Ok([d1 EXCEPT
               !.airline = Drop(d.airline, {id}),
               !.aircraft = [a \in DOMAIN d.aircraft |->
                               IF d.aircraft[a].airline_id = id
                               THEN [d.aircraft[a] EXCEPT !.airline_id = NULL]
                               ELSE d.aircraft[a]],
               !.crew_member = [c \in DOMAIN d.crew_member |->
                               IF d.crew_member[c].airline_id = id
                               THEN [d.crew_member[c] EXCEPT !.airline_id = NULL]
                               ELSE d.crew_member[c]]])

\* DELETE FROM airport WHERE id = $1 (plan: flights CASCADE)
DeleteAirport(sc, d, id) ==
    IF sc = Bare THEN DropRow(d, "airport", id)
    ELSE IF sc = "readme" /\ (DeparturesOf(d, id) # {} \/ ArrivalsOf(d, id) # {})
    THEN Err(d)
    ELSE LET d1 == CascadeFlights(d, DeparturesOf(d, id) \cup ArrivalsOf(d, id)) IN
         Ok([d1 EXCEPT !.airport = Drop(d.airport, {id})])

\* DELETE FROM aircraft WHERE id = $1 (plan: flight.aircraft_id SET NULL)
DeleteAircraft(sc, d, id) ==
    IF sc = Bare THEN DropRow(d, "aircraft", id)
    ELSE IF sc = "readme" /\ FlightsOfAircraft(d, id) # {}
    THEN Err(d)
    ELSE Ok([d EXCEPT
               !.aircraft = Drop(d.aircraft, {id}),
               !.flight = [f \in DOMAIN d.flight |->
                             IF d.flight[f].aircraft_id = id
                             THEN [d.flight[f] EXCEPT !.aircraft_id = NULL]
                             ELSE d.flight[f]]])

\* DELETE FROM crew_member WHERE id = $1 (plan: flight_crew CASCADE)
DeleteCrewMember(sc, d, id) ==
    IF sc = Bare THEN DropRow(d, "crew_member", id)
    ELSE IF sc = "readme" /\ CrewRowsOfMember(d, id) # {}
    THEN Err(d)
    ELSE Ok([d EXCEPT !.crew_member = Drop(d.crew_member, {id}),
                      !.flight_crew = d.flight_crew \ CrewRowsOfMember(d, id)])

-----------------------------------------------------------------------------
(* routes/airlines.js                                                      *)

\* INSERT INTO airline / UPDATE airline: name is NOT NULL, founded_year is
\* an INTEGER
WriteAirline(sc, d, id, row) ==
    IF row.name # NULL /\ PgInteger(row.founded_year) # "error"
    THEN Ok([d EXCEPT !.airline =
                Put(d.airline, id,
                    [row EXCEPT !.founded_year = PgInteger(row.founded_year)])])
    ELSE Err(d)

\* the parameters of the INSERT / UPDATE
AirlineRow(b) == [name |-> ToSql(b.name), founded_year |-> ToSql(b.founded_year)]

\* router.post('/')
AirlinesPost(sc, d, q) ==
    CASE q.pc = "start" ->
           IF ~Truthy(q.body.name)
           THEN Reply(d, q, 400, "Airline name is required")
           ELSE Written(WriteAirline(sc, d, q.uuid, AirlineRow(q.body)),
                        q, 201, "Airline created successfully")

\* router.put('/:id')
AirlinesPut(sc, d, q) ==
    CASE q.pc = "start" ->
           IF ~Truthy(q.body.name)
           THEN Reply(d, q, 400, "Airline name is required")
           \* UPDATE airline ... WHERE id = $5 RETURNING *: the parameters
           \* are read before any row is looked for
           ELSE IF PgInteger(AirlineRow(q.body).founded_year) = "error"
           THEN Caught(d, q)
           ELSE IF q.id \notin Ids(d.airline)
           THEN Reply(d, q, 404, "Airline not found")
           ELSE Written(WriteAirline(sc, d, q.id, AirlineRow(q.body)),
                        q, 200, "Airline updated successfully")

\* router.delete('/:id')
AirlinesDelete(sc, d, q) ==
    CASE q.pc = "start" ->
           IF q.id \notin Ids(d.airline)
           THEN Reply(d, q, 404, "Airline not found")
           ELSE Goto(d, q, "countAircraft")
      [] q.pc = "countAircraft" ->
           Goto(d, [q EXCEPT !.loc = [aircraft |-> Cardinality(AircraftOfAirline(d, q.id))]],
                "countFlights")
      [] q.pc = "countFlights" ->
           Goto(d, [q EXCEPT !.loc = [aircraft |-> q.loc.aircraft,
                                      flights |-> Cardinality(FlightsOfAirline(d, q.id))]],
                "countCrew")
      [] q.pc = "countCrew" ->
           LET crewMembers == Cardinality(CrewOfAirline(d, q.id)) IN
           IF q.loc.aircraft > 0 \/ q.loc.flights > 0 \/ crewMembers > 0
           THEN ReplyData(d, q, 400, "Cannot delete airline with related records",
                          [aircraft |-> q.loc.aircraft, flights |-> q.loc.flights,
                           crewMembers |-> crewMembers])
           ELSE Goto(d, q, "write")
      [] q.pc = "write" ->
           Written(DeleteAirline(sc, d, q.id), q, 200, "Airline deleted successfully")

-----------------------------------------------------------------------------
(* routes/airports.js                                                      *)

\* INSERT INTO airport / UPDATE airport: name is NOT NULL
WriteAirport(sc, d, id, row) ==
    IF row.name # NULL
    THEN Ok([d EXCEPT !.airport = Put(d.airport, id, row)])
    ELSE Err(d)

\* router.post('/')
AirportsPost(sc, d, q) ==
    CASE q.pc = "start" ->
           IF ~Truthy(q.body.name)
           THEN Reply(d, q, 400, "Airport name is required")
           ELSE Written(WriteAirport(sc, d, q.uuid, [name |-> q.body.name]),
                        q, 201, "Airport created successfully")

\* router.put('/:id')
AirportsPut(sc, d, q) ==
    CASE q.pc = "start" ->
           IF ~Truthy(q.body.name)
           THEN Reply(d, q, 400, "Airport name is required")
           ELSE IF q.id \notin Ids(d.airport)
           THEN Reply(d, q, 404, "Airport not found")
           ELSE Written(WriteAirport(sc, d, q.id, [name |-> q.body.name]),
                        q, 200, "Airport updated successfully")

\* router.delete('/:id')
AirportsDelete(sc, d, q) ==
    CASE q.pc = "start" ->
           IF q.id \notin Ids(d.airport)
           THEN Reply(d, q, 404, "Airport not found")
           ELSE Goto(d, q, "countDepartures")
      [] q.pc = "countDepartures" ->
           Goto(d, [q EXCEPT !.loc = [departing |-> Cardinality(DeparturesOf(d, q.id))]],
                "countArrivals")
      [] q.pc = "countArrivals" ->
           LET arriving == Cardinality(ArrivalsOf(d, q.id)) IN
           IF q.loc.departing > 0 \/ arriving > 0
           THEN ReplyData(d, q, 400, "Cannot delete airport with related flights",
                          [departing |-> q.loc.departing, arriving |-> arriving])
           ELSE Goto(d, q, "write")
      [] q.pc = "write" ->
           Written(DeleteAirport(sc, d, q.id), q, 200, "Airport deleted successfully")

-----------------------------------------------------------------------------
(* routes/aircraft.js                                                      *)

\* INSERT INTO aircraft / UPDATE aircraft: two NOT NULL columns and the
\* foreign key to airline
WriteAircraft(sc, d, id, row) ==
    IF /\ row.registration_number # NULL
       /\ row.model # NULL
       /\ RefOk(sc, d.airline, row.airline_id)
    THEN Ok([d EXCEPT !.aircraft = Put(d.aircraft, id, row)])
    ELSE Err(d)

AircraftRow(b) ==
    [registration_number |-> ToSql(b.registration_number), model |-> ToSql(b.model),
     airline_id |-> ToSql(b.airline_id)]

\* router.post('/')
AircraftPost(sc, d, q) ==
    LET b == q.body IN
    CASE q.pc = "start" ->
           IF ~Truthy(b.registration_number) \/ ~Truthy(b.model)
           THEN Reply(d, q, 400, "Registration number and model are required")
           ELSE IF Truthy(b.airline_id) /\ b.airline_id \notin Ids(d.airline)
           THEN Reply(d, q, 400, "Specified airline does not exist")
           ELSE IF Truthy(b.airline_id) THEN Goto(d, q, "write")
           ELSE Written(WriteAircraft(sc, d, q.uuid, AircraftRow(b)),
                        q, 201, "Aircraft created successfully")
      [] q.pc = "write" ->
           Written(WriteAircraft(sc, d, q.uuid, AircraftRow(b)),
                   q, 201, "Aircraft created successfully")

\* router.put('/:id')
AircraftPut(sc, d, q) ==
    LET b == q.body
        update ==
           IF q.id \notin Ids(d.aircraft)
           THEN Reply(d, q, 404, "Aircraft not found")
           ELSE Written(WriteAircraft(sc, d, q.id, AircraftRow(b)),
                        q, 200, "Aircraft updated successfully")
    IN
    CASE q.pc = "start" ->
           IF ~Truthy(b.registration_number) \/ ~Truthy(b.model)
           THEN Reply(d, q, 400, "Registration number and model are required")
           ELSE IF Truthy(b.airline_id) /\ b.airline_id \notin Ids(d.airline)
           THEN Reply(d, q, 400, "Specified airline does not exist")
           ELSE IF Truthy(b.airline_id) THEN Goto(d, q, "write")
           ELSE update
      [] q.pc = "write" -> update

\* router.delete('/:id')
AircraftDelete(sc, d, q) ==
    CASE q.pc = "start" ->
           IF q.id \notin Ids(d.aircraft)
           THEN Reply(d, q, 404, "Aircraft not found")
           ELSE Goto(d, q, "count")
      [] q.pc = "count" ->
           IF Cardinality(FlightsOfAircraft(d, q.id)) > 0
           THEN ReplyData(d, q, 400, "Cannot delete aircraft with related flights",
                          [flights |-> Cardinality(FlightsOfAircraft(d, q.id))])
           ELSE Goto(d, q, "write")
      [] q.pc = "write" ->
           Written(DeleteAircraft(sc, d, q.id), q, 200, "Aircraft deleted successfully")

-----------------------------------------------------------------------------
(* routes/flights.js                                                       *)

\* column and foreign-key constraints of table flight; the two times arrive
\* as text and must be valid TIMESTAMP input
FlightConstraints(sc, d, row) ==
    /\ row.flight_number # NULL
    /\ row.departure_time # NULL /\ PgTimestamp(row.departure_time) # NaN
    /\ row.arrival_time # NULL /\ PgTimestamp(row.arrival_time) # NaN
    /\ sc = "plan" => row.departure_airport_id # NULL /\ row.arrival_airport_id # NULL
    /\ RefOk(sc, d.airport, row.departure_airport_id)
    /\ RefOk(sc, d.airport, row.arrival_airport_id)
    /\ RefOk(sc, d.aircraft, row.aircraft_id)
    /\ RefOk(sc, d.airline, row.airline_id)

\* the row as the store keeps it: the times converted by timestamp_in
StoredFlight(row) ==
    [row EXCEPT !.departure_time = PgTimestamp(row.departure_time),
                !.arrival_time = PgTimestamp(row.arrival_time)]

\* INSERT INTO flight / UPDATE flight ... WHERE id = $9
WriteFlight(sc, d, id, row) ==
    IF FlightConstraints(sc, d, row)
    THEN Ok([d EXCEPT !.flight = Put(d.flight, id, StoredFlight(row))])
    ELSE Err(d)

\* the parameters of the INSERT / UPDATE, status as the handler passes it
FlightRow(b, status) ==
    [flight_number |-> ToSql(b.flight_number),
     departure_airport_id |-> ToSql(b.departure_airport_id),
     arrival_airport_id |-> ToSql(b.arrival_airport_id),
     departure_time |-> ToSql(b.departure_time),
     arrival_time |-> ToSql(b.arrival_time),
     aircraft_id |-> ToSql(b.aircraft_id),
     airline_id |-> ToSql(b.airline_id),
     status |-> status]

\* if (!flight_number || !departure_airport_id || ... || !airline_id)
FlightFieldMissing(b) ==
    \/ ~Truthy(b.flight_number)
    \/ ~Truthy(b.departure_airport_id)
    \/ ~Truthy(b.arrival_airport_id)
    \/ ~Truthy(b.departure_time)
    \/ ~Truthy(b.arrival_time)
    \/ ~Truthy(b.aircraft_id)
    \/ ~Truthy(b.airline_id)

\* if (departureDate >= arrivalDate)
FlightTimesRejected(b) ==
    JsDateGeq(JsDate(b.departure_time), JsDate(b.arrival_time))

\* aircraft.rows of SELECT * FROM aircraft WHERE id = $1: the airline_id of
\* the row, NoRow when rows.length === 0
NoRow == "no row"
AircraftAirline(d, id) ==
    IF id \in Ids(d.aircraft) THEN d.aircraft[id].airline_id ELSE NoRow

\* the synchronous checks on the body, shared by create and update:
\* the rejection message, "" when the body passes
FlightBodyRejection(b) ==
    IF FlightFieldMissing(b) THEN "All flight details are required"
    ELSE IF b.departure_airport_id = b.arrival_airport_id
    THEN "Departure and arrival airports must be different"
    ELSE IF FlightTimesRejected(b) THEN "Departure time must be before arrival time"
    ELSE ""

\* the checks on the four query results, in the order the handler makes them:
\* the rejection message, "" when the references pass
FlightRefRejection(b, loc, airlineFound) ==
    IF ~loc.departureAirport THEN "Departure airport does not exist"
    ELSE IF ~loc.arrivalAirport THEN "Arrival airport does not exist"
    ELSE IF loc.aircraft = NoRow THEN "Aircraft does not exist"
    ELSE IF ~airlineFound THEN "Airline does not exist"
    ELSE IF loc.aircraft # b.airline_id
    THEN "Aircraft does not belong to the specified airline"
    ELSE ""

\* the three SELECTs that follow the first one, and the checks after the last
FlightRefSteps(d, q) ==
    LET b == q.body IN
    CASE q.pc = "selArrival" ->
           Goto(d, [q EXCEPT !.loc = [departureAirport |-> q.loc.departureAirport,
                                      arrivalAirport |->
                                          b.arrival_airport_id \in Ids(d.airport)]],
                "selAircraft")
      [] q.pc = "selAircraft" ->
           Goto(d, [q EXCEPT !.loc = [departureAirport |-> q.loc.departureAirport,
                                      arrivalAirport |-> q.loc.arrivalAirport,
                                      aircraft |-> AircraftAirline(d, b.aircraft_id)]],
                "selAirline")
      [] q.pc = "selAirline" ->
           LET why == FlightRefRejection(b, q.loc, b.airline_id \in Ids(d.airline)) IN
           IF why # "" THEN Reply(d, q, 400, why) ELSE Goto(d, q, "write")

\* SELECT * FROM airport WHERE id = $1 for the departure airport
FlightSelDeparture(d, q) ==
    Goto(d, [q EXCEPT !.loc = [departureAirport |->
                                  q.body.departure_airport_id \in Ids(d.airport)]],
         "selArrival")

\* router.post('/')
FlightsPost(sc, d, q) ==
    LET b == q.body IN
    CASE q.pc = "start" ->
           IF FlightBodyRejection(b) # ""
           THEN Reply(d, q, 400, FlightBodyRejection(b))
           ELSE FlightSelDeparture(d, q)
      [] q.pc \in {"selArrival", "selAircraft", "selAirline"} -> FlightRefSteps(d, q)
      [] q.pc = "write" ->
           Written(WriteFlight(sc, d, q.uuid,
                     FlightRow(b, IF Truthy(b.status) THEN b.status ELSE "Scheduled")),
                   q, 201, "Flight created successfully")

\* router.put('/:id')
FlightsPut(sc, d, q) ==
    LET b == q.body IN
    CASE q.pc = "start" ->
           IF q.id \notin Ids(d.flight)
           THEN Reply(d, q, 404, "Flight not found")
           ELSE IF FlightBodyRejection(b) # ""
           THEN Reply(d, q, 400, FlightBodyRejection(b))
           ELSE Goto(d, q, "selDeparture")
      [] q.pc = "selDeparture" -> FlightSelDeparture(d, q)
      [] q.pc \in {"selArrival", "selAircraft", "selAirline"} -> FlightRefSteps(d, q)
      [] q.pc = "write" ->
           IF q.id \notin Ids(d.flight)
           THEN Reply(d, q, 200, "Flight updated successfully")
           ELSE Written(WriteFlight(sc, d, q.id, FlightRow(b, ToSql(b.status))),
                        q, 200, "Flight updated successfully")

\* the delete handler without its DELETE FROM flight_crew
FlightsDeleteKeepsCrew(sc, d, q) ==
    CASE q.pc = "start" ->
           IF q.id \notin Ids(d.flight)
           THEN Reply(d, q, 404, "Flight not found")
           ELSE Goto(d, q, "countBookings")
      [] q.pc = "countBookings" ->
           IF Cardinality(BookingsOfFlight(d, q.id)) > 0
           THEN ReplyData(d, q, 400, "Cannot delete flight with related bookings",
                          [bookings |-> Cardinality(BookingsOfFlight(d, q.id))])
           ELSE Goto(d, q, "countCrew")
      [] q.pc = "countCrew" -> Goto(d, q, "write")
      [] q.pc = "write" ->
           Written(DeleteFlight(sc, d, q.id), q, 200, "Flight deleted successfully")

\* the delete handler with its DELETE FROM flight_crew moved ahead of the
\* bookings check
FlightsDeleteCrewFirst(sc, d, q) ==
    CASE q.pc = "start" ->
           IF q.id \notin Ids(d.flight)
           THEN Reply(d, q, 404, "Flight not found")
           ELSE Goto(d, q, "deleteCrew")
      [] q.pc = "deleteCrew" ->
           Goto([d EXCEPT !.flight_crew = d.flight_crew \ CrewRowsOfFlight(d, q.id)],
                q, "countBookings")
      [] q.pc = "countBookings" ->
           IF Cardinality(BookingsOfFlight(d, q.id)) > 0
           THEN ReplyData(d, q, 400, "Cannot delete flight with related bookings",
                          [bookings |-> Cardinality(BookingsOfFlight(d, q.id))])
           ELSE Goto(d, q, "write")
      [] q.pc = "write" ->
           Written(DeleteFlight(sc, d, q.id), q, 200, "Flight deleted successfully")

\* router.delete('/:id')
FlightsDelete(sc, d, q) ==
    CASE q.pc = "start" ->
           IF q.id \notin Ids(d.flight)
           THEN Reply(d, q, 404, "Flight not found")
           ELSE Goto(d, q, "countBookings")
      [] q.pc = "countBookings" ->
           IF Cardinality(BookingsOfFlight(d, q.id)) > 0
           THEN ReplyData(d, q, 400, "Cannot delete flight with related bookings",
                          [bookings |-> Cardinality(BookingsOfFlight(d, q.id))])
           ELSE Goto(d, q, "countCrew")
      [] q.pc = "countCrew" ->
           IF Cardinality(CrewRowsOfFlight(d, q.id)) > 0
           THEN Goto(d, q, "deleteCrew")
           ELSE Goto(d, q, "write")
      [] q.pc = "deleteCrew" ->
           \* DELETE FROM flight_crew WHERE flight_id = $1
           Goto([d EXCEPT !.flight_crew = d.flight_crew \ CrewRowsOfFlight(d, q.id)],
                q, "write")
      [] q.pc = "write" ->
           Written(DeleteFlight(sc, d, q.id), q, 200, "Flight deleted successfully")

-----------------------------------------------------------------------------
(* routes/crew-members.js                                                  *)

\* INSERT INTO crew_member / UPDATE crew_member
WriteCrewMember(sc, d, id, row) ==
    IF /\ row.first_name # NULL /\ row.last_name # NULL /\ row.position # NULL
       /\ RefOk(sc, d.airline, row.airline_id)
    THEN Ok([d EXCEPT !.crew_member = Put(d.crew_member, id, row)])
    ELSE Err(d)

CrewRow(b) ==
    [first_name |-> ToSql(b.first_name), last_name |-> ToSql(b.last_name),
     position |-> ToSql(b.position), airline_id |-> ToSql(b.airline_id)]

\* if (!first_name || !last_name || !position || !airline_id)
CrewFieldMissing(b) ==
    \/ ~Truthy(b.first_name) \/ ~Truthy(b.last_name)
    \/ ~Truthy(b.position) \/ ~Truthy(b.airline_id)

CrewRequiredMsg == "First name, last name, position, and airline ID are required"

\* router.post('/')
CrewPost(sc, d, q) ==
    LET b == q.body IN
    CASE q.pc = "start" ->
           IF CrewFieldMissing(b) THEN Reply(d, q, 400, CrewRequiredMsg)
           ELSE IF b.airline_id \notin Ids(d.airline)
           THEN Reply(d, q, 400, "Airline does not exist")
           ELSE Goto(d, q, "write")
      [] q.pc = "write" ->
           Written(WriteCrewMember(sc, d, q.uuid, CrewRow(b)),
                   q, 201, "Crew member created successfully")

\* router.put('/:id')
CrewPut(sc, d, q) ==
    LET b == q.body IN
    CASE q.pc = "start" ->
           IF q.id \notin Ids(d.crew_member)
           THEN Reply(d, q, 404, "Crew member not found")
           ELSE IF CrewFieldMissing(b) THEN Reply(d, q, 400, CrewRequiredMsg)
           ELSE Goto(d, q, "selAirline")
      [] q.pc = "selAirline" ->
           IF b.airline_id \notin Ids(d.airline)
           THEN Reply(d, q, 400, "Airline does not exist")
           ELSE Goto(d, q, "write")
      [] q.pc = "write" ->
           IF q.id \notin Ids(d.crew_member)
           THEN Reply(d, q, 200, "Crew member updated successfully")
           ELSE Written(WriteCrewMember(sc, d, q.id, CrewRow(b)),
                        q, 200, "Crew member updated successfully")

\* the delete handler without its DELETE FROM flight_crew
CrewDeleteKeepsRows(sc, d, q) ==
    CASE q.pc = "start" ->
           IF q.id \notin Ids(d.crew_member)
           THEN Reply(d, q, 404, "Crew member not found")
           ELSE Goto(d, q, "count")
      [] q.pc = "count" -> Goto(d, q, "write")
      [] q.pc = "write" ->
           Written(DeleteCrewMember(sc, d, q.id), q, 200,
                   "Crew member deleted successfully")

\* router.delete('/:id')
CrewDelete(sc, d, q) ==
    CASE q.pc = "start" ->
           IF q.id \notin Ids(d.crew_member)
           THEN Reply(d, q, 404, "Crew member not found")
           ELSE Goto(d, q, "count")
      [] q.pc = "count" ->
           IF Cardinality(CrewRowsOfMember(d, q.id)) > 0
           THEN Goto(d, q, "deleteRows")
           ELSE Goto(d, q, "write")
      [] q.pc = "deleteRows" ->
           \* DELETE FROM flight_crew WHERE crew_member_id = $1
           Goto([d EXCEPT !.flight_crew = d.flight_crew \ CrewRowsOfMember(d, q.id)],
                q, "write")
      [] q.pc = "write" ->
           Written(DeleteCrewMember(sc, d, q.id), q, 200,
                   "Crew member deleted successfully")

\* the insert into a flight_crew table without its composite primary key
InsertFlightCrewNoKey(sc, d, row) ==
    IF /\ row.flight_id \in Ids(d.flight)
       /\ row.crew_member_id \in Ids(d.crew_member)
       /\ sc = "plan" => row.role # NULL
    THEN Ok([d EXCEPT !.flight_crew = d.flight_crew \cup {row}])
    ELSE Err(d)

\* INSERT INTO flight_crew: the composite primary key, the two foreign keys
\* and, in the plan's DDL, role NOT NULL
InsertFlightCrew(sc, d, row) ==
    IF /\ \A x \in d.flight_crew :
              ~(x.flight_id = row.flight_id /\ x.crew_member_id = row.crew_member_id)
       /\ row.flight_id \in Ids(d.flight)
       /\ row.crew_member_id \in Ids(d.crew_member)
       /\ sc = "plan" => row.role # NULL
    THEN Ok([d EXCEPT !.flight_crew = d.flight_crew \cup {row}])
    ELSE Err(d)

\* the assign handler without its airline comparison
CrewAssignAnyAirline(sc, d, q) ==
    LET b == q.body IN
    CASE q.pc = "start" ->
           IF ~Truthy(b.flight_id) \/ ~Truthy(b.crew_member_id) \/ ~Truthy(b.role)
           THEN Reply(d, q, 400, "Flight ID, crew member ID, and role are required")
           ELSE IF b.flight_id \notin Ids(d.flight)
           THEN Reply(d, q, 400, "Flight does not exist")
           ELSE Goto(d, [q EXCEPT !.loc = d.flight[b.flight_id].airline_id], "selCrew")
      [] q.pc = "selCrew" ->
           IF b.crew_member_id \notin Ids(d.crew_member)
           THEN Reply(d, q, 400, "Crew member does not exist")
           ELSE Goto(d, q, "selAssignment")
      [] q.pc = "selAssignment" ->
           IF \E x \in d.flight_crew :
                  x.flight_id = b.flight_id /\ x.crew_member_id = b.crew_member_id
           THEN Reply(d, q, 400, "This crew member is already assigned to this flight")
           ELSE Goto(d, q, "write")
      [] q.pc = "write" ->
           Written(InsertFlightCrew(sc, d, [flight_id |-> b.flight_id,
                                            crew_member_id |-> b.crew_member_id,
                                            role |-> ToSql(b.role)]),
                   q, 201, "Crew member assigned to flight successfully")

\* router.post('/assign')
CrewAssign(sc, d, q) ==
    LET b == q.body IN
    CASE q.pc = "start" ->
           IF ~Truthy(b.flight_id) \/ ~Truthy(b.crew_member_id) \/ ~Truthy(b.role)
           THEN Reply(d, q, 400, "Flight ID, crew member ID, and role are required")
           ELSE IF b.flight_id \notin Ids(d.flight)
           THEN Reply(d, q, 400, "Flight does not exist")
           ELSE Goto(d, [q EXCEPT !.loc = d.flight[b.flight_id].airline_id], "selCrew")
      [] q.pc = "selCrew" ->
           IF b.crew_member_id \notin Ids(d.crew_member)
           THEN Reply(d, q, 400, "Crew member does not exist")
           ELSE IF d.crew_member[b.crew_member_id].airline_id # q.loc
           THEN Reply(d, q, 400,
                      "Crew member does not belong to the airline operating this flight")
           ELSE Goto(d, q, "selAssignment")
      [] q.pc = "selAssignment" ->
           IF \E x \in d.flight_crew :
                  x.flight_id = b.flight_id /\ x.crew_member_id = b.crew_member_id
           THEN Reply(d, q, 400, "This crew member is already assigned to this flight")
           ELSE Goto(d, q, "write")
      [] q.pc = "write" ->
           Written(InsertFlightCrew(sc, d, [flight_id |-> b.flight_id,
                                            crew_member_id |-> b.crew_member_id,
                                            role |-> ToSql(b.role)]),
                   q, 201, "Crew member assigned to flight successfully")

\* router.delete('/assign')
CrewUnassign(sc, d, q) ==
    LET b == q.body
        rows == {x \in d.flight_crew : /\ x.flight_id = b.flight_id
                                       /\ x.crew_member_id = b.crew_member_id}
    IN
    CASE q.pc = "start" ->
           IF ~Truthy(b.flight_id) \/ ~Truthy(b.crew_member_id)
           THEN Reply(d, q, 400, "Flight ID and crew member ID are required")
           ELSE IF rows = {}
           THEN Reply(d, q, 404, "Assignment not found")
           ELSE Goto(d, q, "write")
      [] q.pc = "write" ->
           Reply([d EXCEPT !.flight_crew = d.flight_crew \ rows], q, 200,
                 "Crew member removed from flight successfully")

-----------------------------------------------------------------------------
(* index.js: the routers mounted on the app, and Express's dispatch of a   *)
(* request to the first registered route that matches it.                  *)

\* the write routes of routes/crew-members.js in the order they are registered
CrewRouter ==
    << [method |-> "POST", path |-> "", handler |-> "crew.post"],
       [method |-> "PUT", path |-> ":id", handler |-> "crew.put"],
       [method |-> "DELETE", path |-> ":id", handler |-> "crew.delete"],
       [method |-> "POST", path |-> "assign", handler |-> "crew.assign"],
       [method |-> "DELETE", path |-> "assign", handler |-> "crew.unassign"] >>

\* the route's method and path match the request; ':id' matches any segment
Matches(route, q) ==
    /\ route.method = q.method
    /\ IF route.path = ":id" THEN q.id # "" ELSE q.id = route.path

\* Express runs the first registered route that matches
FirstMatch(routes, q) ==
    LET hits == {i \in DOMAIN routes : Matches(routes[i], q)} IN
    IF hits = {} THEN "none"
    ELSE routes[CHOOSE i \in hits : \A j \in hits : i <= j].handler

\* the handler a request reaches.  `id` is the path below the mount point.
\* In routes/crew-members.js '/:id' is registered before '/assign', so for
\* PUT and DELETE the segment "assign" is taken as an id.
Route(q) ==
    CASE q.mount = "/airlines" /\ q.method = "POST" /\ q.id = "" -> "airlines.post"
      [] q.mount = "/airlines" /\ q.method = "PUT" /\ q.id # "" -> "airlines.put"
      [] q.mount = "/airlines" /\ q.method = "DELETE" /\ q.id # "" -> "airlines.delete"
      [] q.mount = "/airports" /\ q.method = "POST" /\ q.id = "" -> "airports.post"
      [] q.mount = "/airports" /\ q.method = "PUT" /\ q.id # "" -> "airports.put"
      [] q.mount = "/airports" /\ q.method = "DELETE" /\ q.id # "" -> "airports.delete"
      [] q.mount = "/aircraft" /\ q.method = "POST" /\ q.id = "" -> "aircraft.post"
      [] q.mount = "/aircraft" /\ q.method = "PUT" /\ q.id # "" -> "aircraft.put"
      [] q.mount = "/aircraft" /\ q.method = "DELETE" /\ q.id # "" -> "aircraft.delete"
      [] q.mount = "/flights" /\ q.method = "POST" /\ q.id = "" -> "flights.post"
      [] q.mount = "/flights" /\ q.method = "PUT" /\ q.id # "" -> "flights.put"
      [] q.mount = "/flights" /\ q.method = "DELETE" /\ q.id # "" -> "flights.delete"
      [] q.mount = "/passengers" /\ q.method = "POST" /\ q.id = "" -> "passengers.post"
      [] q.mount = "/passengers" /\ q.method = "PUT" /\ q.id # "" -> "passengers.put"
      [] q.mount = "/passengers" /\ q.method = "DELETE" /\ q.id # "" -> "passengers.delete"
      [] q.mount = "/bookings" /\ q.method = "POST" /\ q.id = "" -> "bookings.post"
      [] q.mount = "/bookings" /\ q.method = "PUT" /\ q.id # "" -> "bookings.put"
      [] q.mount = "/bookings" /\ q.method = "DELETE" /\ q.id # "" -> "bookings.delete"
      [] q.mount = "/crew-members" -> FirstMatch(CrewRouter, q)
      [] OTHER -> "none"

\* one step of the handler the request was dispatched to
Step(sc, d, q) ==
    LET h == Route(q) IN
    CASE h = "airlines.post" -> AirlinesPost(sc, d, q)
      [] h = "airlines.put" -> AirlinesPut(sc, d, q)
      [] h = "airlines.delete" -> AirlinesDelete(sc, d, q)
      [] h = "airports.post" -> AirportsPost(sc, d, q)
      [] h = "airports.put" -> AirportsPut(sc, d, q)
      [] h = "airports.delete" -> AirportsDelete(sc, d, q)
      [] h = "aircraft.post" -> AircraftPost(sc, d, q)
      [] h = "aircraft.put" -> AircraftPut(sc, d, q)
      [] h = "aircraft.delete" -> AircraftDelete(sc, d, q)
      [] h = "flights.post" -> FlightsPost(sc, d, q)
      [] h = "flights.put" -> FlightsPut(sc, d, q)
      [] h = "flights.delete" -> FlightsDelete(sc, d, q)
      [] h = "passengers.post" -> PassengersPost(sc, d, q)
      [] h = "passengers.put" -> PassengersPut(sc, d, q)
      [] h = "passengers.delete" -> PassengersDelete(sc, d, q)
      [] h = "bookings.post" -> BookingsPost(sc, d, q)
      [] h = "bookings.put" -> BookingsPut(sc, d, q)
      [] h = "bookings.delete" -> BookingsDelete(sc, d, q)
      [] h = "crew.post" -> CrewPost(sc, d, q)
      [] h = "crew.put" -> CrewPut(sc, d, q)
      [] h = "crew.delete" -> CrewDelete(sc, d, q)
      [] h = "crew.assign" -> CrewAssign(sc, d, q)
      [] h = "crew.unassign" -> CrewUnassign(sc, d, q)

\* the handler run from its current statement to its response, with no other
\* request's statement in between
RECURSIVE Run(_, _, _)
Run(sc, d, q) ==
    IF q.pc = "done" THEN [db |-> d, req |-> q]
    ELSE LET n == Step(sc, d, q) IN Run(sc, n.db, n.req)

-----------------------------------------------------------------------------
(* Request bodies and path ids the clients send.                           *)

\* an id of table t, or one that is in no table
SomeId(t) == Ids(t) \cup {UnknownId}
\* a reference field of a body: an id, an unknown id, or left out
SomeRef(t) == Ids(t) \cup {UnknownId, UNDEF}

NameBodies == [name : {UNDEF, "", "Air America"}]

AirlineBodies ==
    [name : {UNDEF, "", "Air America"}, founded_year : {UNDEF, "01950", "abc"}]

AircraftBodies(d) ==
    [registration_number : {UNDEF, "N12345"}, model : {UNDEF, "Boeing 747"},
     airline_id : SomeRef(d.airline) \cup {""}]

PassengerBodies ==
    [first_name : {UNDEF, "John"}, last_name : {UNDEF, "Doe"},
     email : {UNDEF, "john.doe@example.com", "jane.smith@example.com",
              "hans.mueller@example.com"}]

BookingBodies(d) ==
    [flight_id : SomeRef(d.flight), passenger_id : SomeRef(d.passenger),
     seat_number : {UNDEF, "", "12A", "15F"},
     booking_status : {UNDEF, "Cancelled"}]

CrewBodies(d) ==
    [first_name : {UNDEF, "Michael"}, last_name : {UNDEF, "Johnson"},
     position : {UNDEF, "Pilot"}, airline_id : SomeRef(d.airline)]

PairBodies(d) ==
    [flight_id : SomeRef(d.flight), crew_member_id : SomeRef(d.crew_member)]

AssignBodies(d) ==
    [flight_id : SomeRef(d.flight), crew_member_id : SomeRef(d.crew_member),
     role : {UNDEF, "Captain"}]

FlightFields == {"flight_number", "departure_airport_id", "arrival_airport_id",
                 "departure_time", "arrival_time", "aircraft_id", "airline_id",
                 "status"}

\* the values a client may put in field f of a flight body
FlightFieldValues(d, f) ==
    CASE f = "flight_number" -> {UNDEF, "AA101"}
      [] f \in {"departure_airport_id", "arrival_airport_id"} -> SomeRef(d.airport)
      [] f \in {"departure_time", "arrival_time"} -> TimeTexts \cup {UNDEF}
      [] f = "aircraft_id" -> SomeRef(d.aircraft)
      [] f = "airline_id" -> SomeRef(d.airline)
      [] f = "status" -> {UNDEF, "Delayed"}

\* bodies a well-behaved client sends: two different airports, an hour's
\* flight, an aircraft and the airline that owns it
FlightTemplates(d) ==
    {[flight_number |-> "AA101", departure_airport_id |-> leg[1],
      arrival_airport_id |-> leg[2],
      departure_time |-> "2023-06-01T08:00:00Z",
      arrival_time |-> "2023-06-01T09:00:00Z",
      aircraft_id |-> ac, airline_id |-> d.aircraft[ac].airline_id,
      status |-> UNDEF] :
        leg \in {x \in Ids(d.airport) \X Ids(d.airport) : x[1] # x[2]},
        ac \in Ids(d.aircraft)}

\* the bodies of S with any one field set to any of its values
Vary(d, S) ==
    UNION {{[b EXCEPT ![f] = v] : v \in FlightFieldValues(d, f)} :
              b \in S, f \in FlightFields}

\* flight bodies: a well-formed body with up to two fields changed
FlightBodies(d) == Vary(d, Vary(d, FlightTemplates(d)))

-----------------------------------------------------------------------------
(* Initial state: the tables created by one of the two DDL scripts and     *)
(* loaded with rows in the shape of the README's sample data.              *)

SampleData ==
    [airline |-> [a \in {"a1", "a2", "a3"} |->
                     [name |-> "Air America", founded_year |-> "1950"]],
     airport |-> [a \in {"ap1", "ap2"} |-> [name |-> "Heathrow Airport"]],
     aircraft |->
        [a \in {"ac1", "ac2"} |->
            [registration_number |-> "N12345", model |-> "Boeing 747",
             airline_id |-> IF a = "ac1" THEN "a1" ELSE "a2"]],
     flight |->
        [f \in {"f1", "f2"} |->
            IF f = "f1"
            THEN [flight_number |-> "AA101", departure_airport_id |-> "ap1",
                  arrival_airport_id |-> "ap2", departure_time |-> 8,
                  arrival_time |-> 20, aircraft_id |-> "ac1", airline_id |-> "a1",
                  status |-> "Completed"]
            ELSE [flight_number |-> "BA202", departure_airport_id |-> "ap2",
                  arrival_airport_id |-> "ap1", departure_time |-> 9,
                  arrival_time |-> 11, aircraft_id |-> "ac2", airline_id |-> "a2",
                  status |-> "Completed"]],
     passenger |->
        [p \in {"p1", "p2"} |->
            [first_name |-> "John", last_name |-> "Doe",
             email |-> IF p = "p1" THEN "john.doe@example.com"
                       ELSE "jane.smith@example.com"]],
     booking |->
        [b \in {"b1"} |->
            [flight_id |-> "f1", passenger_id |-> "p1", booking_date |-> Clock(0),
             seat_number |-> "12A", booking_status |-> "Confirmed"]],
     crew_member |->
        [c \in {"c1", "c3"} |->
            [first_name |-> "Michael", last_name |-> "Johnson",
             position |-> "Pilot",
             airline_id |-> IF c = "c1" THEN "a1" ELSE "a2"]],
     flight_crew |-> {[flight_id |-> "f1", crew_member_id |-> "c1", role |-> "Captain"],
                      [flight_id |-> "f2", crew_member_id |-> "c3", role |-> "Captain"]}]

Slots == 1..MaxInFlight

\* the connections of the pool: a request has one query in flight at a time,
\* so the pool never holds more connections than requests are being handled
Conns == Slots

\* new Pool({...}): no connection is open until a query needs one
NewPool == [c \in Conns |-> [state |-> "none", tx |-> FALSE]]

\* the store and the server after start-up, with n requests to come
InitWith(n) ==
    /\ schema \in Schemas
    /\ db = SampleData
    /\ req = [r \in Slots |-> Idle]
    /\ left = n
    /\ pool = NewPool

Init == InitWith(MaxServed)

-----------------------------------------------------------------------------
(* Requests handled one at a time: a request is admitted when no other is  *)
(* being handled, and its handler runs to its response.                    *)

\* no request is being handled and the clients have one to send
Quiet == (\A r \in Slots : req[r] = Idle) /\ left > 0

Serve(method, mount, id, body) ==
    /\ LET out == Run(schema, db, Request(method, mount, id, body, left, db)) IN
       /\ db' = out.db
       /\ req' = [req EXCEPT ![1] = out.req]
    /\ left' = left - 1
    /\ UNCHANGED <<schema, pool>>

\* the response has been sent; the slot is free again
Respond(r) ==
    /\ req[r].pc = "done"
    /\ req' = [req EXCEPT ![r] = Idle]
    /\ UNCHANGED <<schema, db, left, pool>>

AirlineCreate ==
    /\ Quiet
    /\ \E b \in AirlineBodies :
           Serve("POST", "/airlines", "", b)
AirlineUpdate ==
    /\ Quiet
    /\ \E id \in SomeId(db.airline), b \in AirlineBodies :
           Serve("PUT", "/airlines", id, b)
AirlineDelete ==
    /\ Quiet
    /\ \E id \in SomeId(db.airline) :
           Serve("DELETE", "/airlines", id, <<>>)
AirportCreate ==
    /\ Quiet
    /\ \E b \in NameBodies :
           Serve("POST", "/airports", "", b)
AirportUpdate ==
    /\ Quiet
    /\ \E id \in SomeId(db.airport), b \in NameBodies :
           Serve("PUT", "/airports", id, b)
AirportDelete ==
    /\ Quiet
    /\ \E id \in SomeId(db.airport) :
           Serve("DELETE", "/airports", id, <<>>)
AircraftCreate ==
    /\ Quiet
    /\ \E b \in AircraftBodies(db) :
           Serve("POST", "/aircraft", "", b)
AircraftUpdate ==
    /\ Quiet
    /\ \E id \in SomeId(db.aircraft), b \in AircraftBodies(db) :
           Serve("PUT", "/aircraft", id, b)
AircraftRemove ==
    /\ Quiet
    /\ \E id \in SomeId(db.aircraft) :
           Serve("DELETE", "/aircraft", id, <<>>)
FlightCreate ==
    /\ Quiet
    /\ \E b \in FlightBodies(db) :
           Serve("POST", "/flights", "", b)
FlightUpdate ==
    /\ Quiet
    /\ \E id \in SomeId(db.flight), b \in FlightBodies(db) :
           Serve("PUT", "/flights", id, b)
FlightDelete ==
    /\ Quiet
    /\ \E id \in SomeId(db.flight) :
           Serve("DELETE", "/flights", id, <<>>)
PassengerCreate ==
    /\ Quiet
    /\ \E b \in PassengerBodies :
           Serve("POST", "/passengers", "", b)
PassengerUpdate ==
    /\ Quiet
    /\ \E id \in SomeId(db.passenger), b \in PassengerBodies :
           Serve("PUT", "/passengers", id, b)
PassengerDelete ==
    /\ Quiet
    /\ \E id \in SomeId(db.passenger) :
           Serve("DELETE", "/passengers", id, <<>>)
BookingCreate ==
    /\ Quiet
    /\ \E b \in BookingBodies(db) :
           Serve("POST", "/bookings", "", b)
BookingUpdate ==
    /\ Quiet
    /\ \E id \in SomeId(db.booking), b \in BookingBodies(db) :
           Serve("PUT", "/bookings", id, b)
BookingDelete ==
    /\ Quiet
    /\ \E id \in SomeId(db.booking) :
           Serve("DELETE", "/bookings", id, <<>>)
CrewCreate ==
    /\ Quiet
    /\ \E b \in CrewBodies(db) :
           Serve("POST", "/crew-members", "", b)
CrewUpdate ==
    /\ Quiet
    /\ \E id \in SomeId(db.crew_member), b \in CrewBodies(db) :
           Serve("PUT", "/crew-members", id, b)
CrewRemove ==
    /\ Quiet
    /\ \E id \in SomeId(db.crew_member) \cup {"assign"} :
           Serve("DELETE", "/crew-members", id, <<>>)
CrewAssignment ==
    /\ Quiet
    /\ \E b \in AssignBodies(db) :
           Serve("POST", "/crew-members", "assign", b)

CrewUnassignment ==
    /\ Quiet
    /\ \E b \in PairBodies(db) :
           Serve("DELETE", "/crew-members", "assign", b)

-----------------------------------------------------------------------------
(* Requests handled concurrently: Node runs a handler up to its next        *)
(* `await pool.query(...)`, and the statements of other requests may run    *)
(* before it resumes.                                                      *)

\* slot r takes a request; its handler has not run yet
Admit(r, method, mount, id, body) ==
    /\ req' = [req EXCEPT ![r] = Request(method, mount, id, body, left, db)]
    /\ left' = left - 1
    /\ UNCHANGED <<schema, db, pool>>

\* slot r is free and the clients have a request to send
Free(r) == req[r] = Idle /\ left > 0

\* the handler in slot r runs up to and including its next query
Advance(r) ==
    /\ req[r].pc \notin {"idle", "done"}
    /\ LET n == Step(schema, db, req[r]) IN
       /\ db' = n.db
       /\ req' = [req EXCEPT ![r] = n.req]
    /\ UNCHANGED <<schema, left, pool>>

\* bodies of well-formed booking requests for the seats 12A and 15F
SeatBodies(d) ==
    [flight_id : Ids(d.flight), passenger_id : Ids(d.passenger),
     seat_number : {"12A", "15F"}, booking_status : {UNDEF}]

\* bodies of well-formed passenger requests
EmailBodies ==
    [first_name : {"John"}, last_name : {"Doe"},
     email : {"john.doe@example.com", "jane.smith@example.com",
              "hans.mueller@example.com"}]

\* bodies of well-formed booking requests that also carry a booking_date
DatedBodies(d) ==
    [flight_id : Ids(d.flight), passenger_id : Ids(d.passenger),
     seat_number : {UNDEF, "15F"}, booking_status : {UNDEF},
     booking_date : {UNDEF, "2020-01-01T00:00:00Z"}]

BookingCreateDated ==
    /\ Quiet
    /\ \E b \in DatedBodies(db) :
           Serve("POST", "/bookings", "", b)
BookingUpdateDated ==
    /\ Quiet
    /\ \E id \in SomeId(db.booking), b \in DatedBodies(db) :
           Serve("PUT", "/bookings", id, b)

BookingCreateBegins(r) ==
    /\ Free(r)
    /\ \E b \in SeatBodies(db) :
           Admit(r, "POST", "/bookings", "", b)
BookingUpdateBegins(r) ==
    /\ Free(r)
    /\ \E id \in Ids(db.booking), b \in SeatBodies(db) :
           Admit(r, "PUT", "/bookings", id, b)
PassengerCreateBegins(r) ==
    /\ Free(r)
    /\ \E b \in EmailBodies :
           Admit(r, "POST", "/passengers", "", b)
PassengerUpdateBegins(r) ==
    /\ Free(r)
    /\ \E id \in Ids(db.passenger), b \in EmailBodies :
           Admit(r, "PUT", "/passengers", id, b)
\* bodies of well-formed assignment requests
RoleBodies(d) ==
    [flight_id : Ids(d.flight), crew_member_id : Ids(d.crew_member),
     role : {"Captain", "First Officer"}]

CrewAssignBegins(r) ==
    /\ Free(r)
    /\ \E b \in RoleBodies(db) :
           Admit(r, "POST", "/crew-members", "assign", b)
\* a crew-member delete taken when no other request is being handled
CrewDeleteBegins ==
    /\ Quiet
    /\ \E id \in SomeId(db.crew_member) :
           Admit(1, "DELETE", "/crew-members", id, <<>>)

\* a flight delete taken when no other request is being handled
FlightDeleteBegins ==
    /\ Quiet
    /\ \E id \in SomeId(db.flight) :
           Admit(1, "DELETE", "/flights", id, <<>>)

\* the sample rows, and an airport and an aircraft that no flight uses
SpareData ==
    [SampleData EXCEPT
        !.airport = Put(@, "ap3", [name |-> "Heathrow Airport"]),
        !.aircraft = Put(@, "ac3", [registration_number |-> "N12345",
                                    model |-> "Boeing 747",
                                    airline_id |-> "a1"])]

\* the routers whose delete handler counts the referring rows first, with
\* the table each deletes from
Guarded ==
    {<<"/airlines", "airline">>, <<"/aircraft", "aircraft">>,
     <<"/airports", "airport">>, <<"/passengers", "passenger">>,
     <<"/flights", "flight">>}

\* a delete of an existing row of one of these tables arrives in slot r
DeleteBegins(r) ==
    /\ Free(r)
    /\ \E g \in Guarded :
           \E id \in Ids(db[g[2]]) :
               Admit(r, "DELETE", g[1], id, <<>>)

\* well-formed creates of rows that refer to rows of store d
RacedCreates(d) ==
    {[mount |-> "/bookings", id |-> "", body |-> b] : b \in SeatBodies(d)}
    \cup {[mount |-> "/flights", id |-> "", body |-> b] : b \in FlightTemplates(d)}
    \cup {[mount |-> "/aircraft", id |-> "", body |-> b] :
              b \in [registration_number : {"N12345"}, model : {"Boeing 747"},
                     airline_id : Ids(d.airline)]}
    \cup {[mount |-> "/crew-members", id |-> "", body |-> b] :
              b \in [first_name : {"Michael"}, last_name : {"Johnson"},
                     position : {"Pilot"}, airline_id : Ids(d.airline)]}
    \cup {[mount |-> "/crew-members", id |-> "assign", body |-> b] :
              b \in RoleBodies(d)}

\* one of them arrives in slot r
CreateBegins(r) ==
    /\ Free(r)
    /\ \E c \in RacedCreates(db) :
           Admit(r, "POST", c.mount, c.id, c.body)

-----------------------------------------------------------------------------
(* index.js, app.get('/api/stats'): thirteen statements sent with          *)
(* pool.query, each of which runs on a connection the pool picks when the  *)
(* statement is sent and takes back when the statement has returned.  The  *)
(* data-access layer answers a statement with success or with an error.    *)

\* the sub-queries between BEGIN and COMMIT, in the handler's order: the
\* seven table counts, then the four reports
StatsQueries ==
    << "flight", "passenger", "airline", "aircraft", "airport", "booking",
       "crew_member", "flightsPerAirline", "flightsPerAirport",
       "flightsWithMultipleCrew", "avgFlightDurations" >>

\* the tables whose row count the response carries
StatsCounted ==
    {"flight", "passenger", "airline", "aircraft", "airport", "booking",
     "crew_member"}

\* the connections pool.query may run a statement on: an idle one, or a new
\* one when none is idle
Acquire(p) ==
    LET idle == {c \in Conns : p[c].state = "idle"}
        closed == {c \in Conns : p[c].state = "none"}
    IN IF idle # {} THEN idle
       ELSE IF closed # {} THEN {CHOOSE c \in closed : \A x \in closed : c <= x}
       ELSE {}

\* whether a connection is inside a transaction after the statement of
\* position pc has returned on it
TxAfter(pc, ok, tx) ==
    IF ~ok THEN tx
    ELSE IF pc = "begin" THEN TRUE
    ELSE IF pc \in {"commit", "rollback"} THEN FALSE
    ELSE tx

\* the statement in flight is sent on connection c
SentOn(q, c) ==
    [q EXCEPT !.loc = [@ EXCEPT !.on = {c}, !.used = @ \cup {c}]]

\* the handler in store d once the statement it awaits has returned: pc names
\* the statement it sends next; "rejected" is the handler's promise rejected
\* out of its catch block, after which nothing answers the request
StatsAfter(d, q, ok) ==
    LET back == [q EXCEPT !.loc = [@ EXCEPT !.on = {}]]
        i == q.loc.i
        t == StatsQueries[i]
        read == IF t \in StatsCounted
                THEN [back EXCEPT !.loc = [@ EXCEPT !.counts =
                          Append(@, Cardinality(DOMAIN d[t]))]]
                ELSE back
    IN
    CASE q.pc = "begin" ->
           IF ok THEN [back EXCEPT !.pc = "query", !.loc = [@ EXCEPT !.i = 1]]
           ELSE [back EXCEPT !.pc = "rollback"]
      [] q.pc = "query" ->
           IF ~ok THEN [back EXCEPT !.pc = "rollback"]
           ELSE IF i < Len(StatsQueries)
           THEN [read EXCEPT !.loc = [@ EXCEPT !.i = i + 1]]
           ELSE [read EXCEPT !.pc = "commit"]
      [] q.pc = "commit" ->
           IF ok
           THEN ReplyData(d, back, 200,
                          "Database statistics retrieved successfully",
                          back.loc.counts).req
           ELSE [back EXCEPT !.pc = "rollback"]
      [] q.pc = "rollback" ->
           IF ok THEN Caught(d, back).req
           ELSE [back EXCEPT !.pc = "rejected"]

\* a stats request arrives in slot r and its handler sends BEGIN
StatsBegins(r) ==
    /\ Free(r)
    /\ \E c \in Acquire(pool) :
           /\ req' = [req EXCEPT ![r] =
                  SentOn([Request("GET", "/api/stats", "", <<>>, left, db)
                             EXCEPT !.pc = "begin",
                                    !.loc = [i |-> 0, on |-> {}, used |-> {},
                                             counts |-> <<>>]], c)]
           /\ pool' = [pool EXCEPT ![c] = [@ EXCEPT !.state = "busy"]]
    /\ left' = left - 1
    /\ UNCHANGED <<schema, db>>

\* the statement the stats handler in slot r awaits returns, the pool takes
\* the connection back, and the handler runs up to its next statement
StatsStep(r) ==
    /\ req[r].pc \in {"begin", "query", "commit", "rollback"}
    /\ \E ok \in BOOLEAN :
           LET q == req[r]
               c == CHOOSE x \in q.loc.on : TRUE
               back == [pool EXCEPT ![c] =
                           [state |-> "idle",
                            tx |-> TxAfter(q.pc, ok, pool[c].tx)]]
               next == StatsAfter(db, q, ok)
           IN IF next.pc \in {"done", "rejected"}
              THEN /\ pool' = back
                   /\ req' = [req EXCEPT ![r] = next]
              ELSE \E n \in Acquire(back) :
                       /\ pool' = [back EXCEPT ![n] = [@ EXCEPT !.state = "busy"]]
                       /\ req' = [req EXCEPT ![r] = SentOn(next, n)]
    /\ UNCHANGED <<schema, db, left>>

-----------------------------------------------------------------------------
(* Specifications.                                                         *)

\* bookings, one request at a time
NextBookings ==
    \/ BookingCreate \/ BookingUpdate \/ BookingDelete
    \/ Respond(1)

Spec == Init /\ [][NextBookings]_vars

\* bookings whose requests carry a booking_date, one request at a time
NextBookingDates ==
    \/ BookingCreateDated \/ BookingUpdateDated \/ BookingDelete
    \/ Respond(1)

SpecBookingDates == Init /\ [][NextBookingDates]_vars

\* passengers, one request at a time
NextPassengers ==
    \/ PassengerCreate \/ PassengerUpdate \/ PassengerDelete
    \/ Respond(1)

SpecPassengers == Init /\ [][NextPassengers]_vars

\* airlines and the rows that refer to them, one request at a time
NextAirlines ==
    \/ AirlineCreate \/ AirlineUpdate \/ AirlineDelete
    \/ AircraftCreate \/ AircraftRemove
    \/ CrewCreate \/ CrewRemove
    \/ FlightDelete \/ BookingDelete
    \/ Respond(1)

SpecAirlines == Init /\ [][NextAirlines]_vars

\* crew members and their assignments, one request at a time
NextCrew ==
    \/ CrewCreate \/ CrewRemove \/ CrewAssignment \/ CrewUnassignment
    \/ Respond(1)

SpecCrew == Init /\ [][NextCrew]_vars

\* flight deletes seen statement by statement, between other requests
NextFlightDelete ==
    \/ FlightDeleteBegins \/ Advance(1)
    \/ BookingCreate \/ BookingDelete \/ CrewAssignment
    \/ Respond(1)

SpecFlightDelete == Init /\ [][NextFlightDelete]_vars

\* the crew-member delete statement by statement, between creates and
\* assignments
NextCrewDelete ==
    \/ CrewDeleteBegins \/ Advance(1)
    \/ CrewCreate \/ CrewAssignment
    \/ Respond(1)

SpecCrewDelete == Init /\ [][NextCrewDelete]_vars

\* concurrent booking creates and updates
NextBookingRace ==
    \E r \in Slots :
        \/ BookingCreateBegins(r) \/ BookingUpdateBegins(r)
        \/ Advance(r) \/ Respond(r)

SpecBookingRace == InitWith(MaxRaced) /\ [][NextBookingRace]_vars

\* concurrent passenger creates and updates
NextPassengerRace ==
    \E r \in Slots :
        \/ PassengerCreateBegins(r) \/ PassengerUpdateBegins(r)
        \/ Advance(r) \/ Respond(r)

SpecPassengerRace == InitWith(MaxRaced) /\ [][NextPassengerRace]_vars

\* the store loaded with the sample rows except the crew assignments, which
\* are left to the clients
InitUnassigned ==
    /\ schema \in Schemas
    /\ db = [SampleData EXCEPT !.flight_crew = {}]
    /\ req = [r \in Slots |-> Idle]
    /\ left = MaxRaced
    /\ pool = NewPool

\* concurrent crew assignments
NextAssignRace ==
    \E r \in Slots :
        \/ CrewAssignBegins(r)
        \/ Advance(r) \/ Respond(r)

SpecAssignRace == InitUnassigned /\ [][NextAssignRace]_vars

\* the sample rows and the spare ones, with requests to be handled
\* concurrently
InitSpare ==
    /\ schema \in Schemas
    /\ db = SpareData
    /\ req = [r \in Slots |-> Idle]
    /\ left = MaxRaced
    /\ pool = NewPool

\* deletes concurrent with creates that refer to the rows being deleted
NextDeleteRace ==
    \E r \in Slots :
        \/ DeleteBegins(r) \/ CreateBegins(r)
        \/ Advance(r) \/ Respond(r)

SpecDeleteRace == InitSpare /\ [][NextDeleteRace]_vars

\* one flight delete, concurrent with creates that refer to rows of the
\* store; no other request removes a flight or a flight_crew row
NextFlightDeleteRace ==
    \/ /\ Free(1)
       /\ \E id \in Ids(db.flight) : Admit(1, "DELETE", "/flights", id, <<>>)
    \/ CreateBegins(2)
    \/ \E r \in Slots : Advance(r) \/ Respond(r)

SpecFlightDeleteRace == InitSpare /\ [][NextFlightDeleteRace]_vars

\* concurrent stats requests
NextStats ==
    \E r \in Slots :
        \/ StatsBegins(r)
        \/ StatsStep(r) \/ Respond(r)

SpecStats == InitWith(MaxRaced) /\ [][NextStats]_vars

\* the same, where every statement sent is answered and every response that
\* is ready is delivered
SpecStatsLive ==
    /\ SpecStats
    /\ \A r \in Slots : WF_vars(StatsStep(r)) /\ WF_vars(Respond(r))

\* deletes of aircraft, airports and passengers, after creates and deletes
\* that change what refers to them
NextDependents ==
    \/ AirportCreate \/ AirportDelete
    \/ AircraftCreate \/ AircraftRemove
    \/ PassengerCreate \/ PassengerDelete
    \/ FlightDelete \/ BookingDelete
    \/ Respond(1)

SpecDependents == Init /\ [][NextDependents]_vars

\* every route, one request at a time
NextAll ==
    \/ AirlineCreate \/ AirlineUpdate \/ AirlineDelete
    \/ AirportCreate \/ AirportUpdate \/ AirportDelete
    \/ AircraftCreate \/ AircraftUpdate \/ AircraftRemove
    \/ FlightCreate \/ FlightUpdate \/ FlightDelete
    \/ PassengerCreate \/ PassengerUpdate \/ PassengerDelete
    \/ BookingCreate \/ BookingUpdate \/ BookingDelete
    \/ CrewCreate \/ CrewUpdate \/ CrewRemove \/ CrewAssignment
    \/ CrewUnassignment
    \/ Respond(1)

SpecAll == InitWith(MaxServedAll) /\ [][NextAll]_vars

\* the sample rows in a store that enforces no foreign key
InitBare ==
    /\ schema = Bare
    /\ db = SampleData
    /\ req = [r \in Slots |-> Idle]
    /\ left = MaxServedAll
    /\ pool = NewPool

\* every route, one request at a time, over a store without foreign keys
SpecBare == InitBare /\ [][NextAll]_vars

-----------------------------------------------------------------------------
(* Properties.                                                             *)

\* bookings x and y of store d hold the same set seat on the same flight
SameSeat(d, x, y) ==
    /\ x # y
    /\ d.booking[x].seat_number \notin {NULL, ""}
    /\ d.booking[x].seat_number = d.booking[y].seat_number
    /\ d.booking[x].flight_id = d.booking[y].flight_id

\* C1: under any interleaving of the statements of concurrent booking creates
\* and booking updates, no two distinct bookings with a set seat_number have
\* the same flight_id and the same seat_number.
C1_SeatsUnique ==
    \A x, y \in DOMAIN db.booking : ~SameSeat(db, x, y)

\* passengers x and y of store d have the same email
SameEmail(d, x, y) ==
    /\ x # y
    /\ d.passenger[x].email # NULL
    /\ d.passenger[x].email = d.passenger[y].email

\* C7: under any interleaving of the statements of concurrent passenger
\* creates and passenger updates, no two distinct passengers have the same
\* email.
C7_EmailsUnique ==
    \A x, y \in DOMAIN db.passenger : ~SameEmail(db, x, y)

\* the request whose response slot 1 holds, when the handler is h
Answered(h) == req[1].pc = "done" /\ Route(req[1]) = h

\* a booking of store d, other than those in except, holds the seat of body b
\* on the flight of body b
SeatHeld(d, b, except) ==
    \E x \in DOMAIN d.booking \ except :
        /\ d.booking[x].flight_id = b.flight_id
        /\ d.booking[x].seat_number = b.seat_number

\* the booking update q names an existing booking and asks for the flight and
\* the seat that booking already has
KeepsOwnSeat(q) ==
    /\ q.id \in DOMAIN q.pre.booking
    /\ q.body.flight_id = q.pre.booking[q.id].flight_id
    /\ q.body.seat_number = q.pre.booking[q.id].seat_number

\* C2: with requests handled one at a time, a booking create that names a
\* seat held by a booking on the same flight is answered 400 and adds no
\* booking, with 'This seat is already booked' when its passenger exists; a
\* booking update is answered 'This seat is already booked' only when a
\* booking other than the updated one holds the seat on the requested flight,
\* and is answered 400 whenever one does; an update of an existing booking
\* that keeps its own seat, for an existing passenger, is answered 200.
C2_SeatTaken ==
    LET q == req[1] IN
    /\ Answered("bookings.post")
           /\ Truthy(q.body.seat_number) /\ SeatHeld(q.pre, q.body, {}) =>
          /\ q.resp.status = 400
          /\ db = q.pre
          /\ q.body.passenger_id \in DOMAIN q.pre.passenger =>
                 q.resp.message = SeatTakenMsg
    /\ Answered("bookings.put") /\ q.resp.message = SeatTakenMsg =>
          /\ q.resp.status = 400
          /\ SeatHeld(q.pre, q.body, {q.id})
    /\ Answered("bookings.put") /\ q.id \in DOMAIN q.pre.booking
           /\ Truthy(q.body.seat_number) /\ SeatHeld(q.pre, q.body, {q.id}) =>
          /\ q.resp.status = 400
          /\ db = q.pre
    /\ Answered("bookings.put") /\ KeepsOwnSeat(q)
           /\ Truthy(q.body.seat_number)
           /\ q.body.passenger_id \in DOMAIN q.pre.passenger =>
          /\ q.resp.status = 200
          /\ q.id \in DOMAIN db.booking
          /\ db.booking[q.id].seat_number = q.body.seat_number

\* an update that kept its own seat, on a flight with a second booking, has
\* been answered 200
C2_Witness ==
    LET q == req[1] IN
    /\ Answered("bookings.put") /\ KeepsOwnSeat(q)
    /\ Truthy(q.body.seat_number)
    /\ q.resp.status = 200
    /\ \E x \in DOMAIN q.pre.booking \ {q.id} :
           q.pre.booking[x].flight_id = q.body.flight_id

\* a passenger of store d, other than those in except, has email e
EmailHeld(d, e, except) ==
    \E x \in DOMAIN d.passenger \ except : d.passenger[x].email = e

\* the passenger body names everything the handlers require
PassengerComplete(b) ==
    Truthy(b.first_name) /\ Truthy(b.last_name) /\ Truthy(b.email)

\* C6: with requests handled one at a time, a passenger create with an email
\* a passenger already has is answered 400; an update of an existing
\* passenger to an email a different passenger has is answered 400; both
\* leave the store as it was; a complete update of an existing passenger with
\* its own current email is answered 200.
C6_EmailTaken ==
    LET q == req[1] IN
    /\ Answered("passengers.post") /\ EmailHeld(q.pre, q.body.email, {}) =>
          q.resp.status = 400 /\ db = q.pre
    /\ Answered("passengers.put") /\ q.id \in DOMAIN q.pre.passenger
           /\ EmailHeld(q.pre, q.body.email, {q.id}) =>
          q.resp.status = 400 /\ db = q.pre
    /\ Answered("passengers.put") /\ q.id \in DOMAIN q.pre.passenger
           /\ PassengerComplete(q.body)
           /\ q.body.email = q.pre.passenger[q.id].email =>
          /\ q.resp.status = 200
          /\ db.passenger[q.id].email = q.body.email

\* a passenger created earlier in the run has been updated with its own email
C6_Witness ==
    LET q == req[1] IN
    /\ Answered("passengers.put")
    /\ q.id \in DOMAIN q.pre.passenger \ DOMAIN SampleData.passenger
    /\ q.body.email = q.pre.passenger[q.id].email
    /\ q.resp.status = 200

\* C3: after any sequence of flight creates and flight updates, every stored
\* flight has a departure airport different from its arrival airport and a
\* departure_time strictly earlier than its arrival_time.
C3_FlightsWellFormed ==
    \A f \in DOMAIN db.flight :
        /\ db.flight[f].departure_airport_id # db.flight[f].arrival_airport_id
        /\ db.flight[f].departure_time < db.flight[f].arrival_time

\* C4: in every state reached by accepted requests, every stored flight
\* references an aircraft whose airline_id equals the flight's airline_id.
C4_AircraftOwnership ==
    \A f \in DOMAIN db.flight :
        /\ db.flight[f].aircraft_id \in DOMAIN db.aircraft
        /\ db.aircraft[db.flight[f].aircraft_id].airline_id = db.flight[f].airline_id

\* C5: in every state reached by accepted requests, every flight_crew row
\* links a crew member whose airline_id equals the airline_id of the linked
\* flight.
C5_CrewAirline ==
    \A row \in db.flight_crew :
        /\ row.crew_member_id \in DOMAIN db.crew_member
        /\ row.flight_id \in DOMAIN db.flight
        /\ db.crew_member[row.crew_member_id].airline_id
               = db.flight[row.flight_id].airline_id

\* rows of table t of store d whose airline_id is id
OfAirline(t, id) == {x \in DOMAIN t : t[x].airline_id = id}

CrewRowsFor(d, id) == {row \in d.flight_crew : row.flight_id = id}

\* slot 1 holds a delete of a flight that existed when the request arrived
DeletingFlight ==
    /\ req[1].pc # "idle"
    /\ Route(req[1]) = "flights.delete"
    /\ req[1].id \in DOMAIN req[1].pre.flight

C10_RejectedUnchanged ==
    \A r \in Slots :
        req[r].pc = "done" /\ req[r].resp.status \in {400, 404} =>
            db = req[r].pre

\* a flight create has been refused for its time order
C10_Witness ==
    /\ Answered("flights.post")
    /\ req[1].resp.status = 400
    /\ req[1].resp.message = "Departure time must be before arrival time"
    /\ db = req[1].pre

\* the fields a flight body must carry
FlightRequired == FlightFields \ {"status"}

\* the reason the first failing check of the flight validation gives for body
\* b against store d, in the order required field, same airport, time order,
\* departure airport, arrival airport, aircraft, airline, ownership; "" when
\* no check fails
FlightReason(d, b) ==
    IF \E f \in FlightRequired : b[f] \in {UNDEF, ""}
    THEN "All flight details are required"
    ELSE IF b.departure_airport_id = b.arrival_airport_id
    THEN "Departure and arrival airports must be different"
    ELSE IF ~(/\ JsDate(b.departure_time) # NaN
              /\ JsDate(b.arrival_time) # NaN
              /\ JsDate(b.departure_time) < JsDate(b.arrival_time))
    THEN "Departure time must be before arrival time"
    ELSE IF b.departure_airport_id \notin DOMAIN d.airport
    THEN "Departure airport does not exist"
    ELSE IF b.arrival_airport_id \notin DOMAIN d.airport
    THEN "Arrival airport does not exist"
    ELSE IF b.aircraft_id \notin DOMAIN d.aircraft
    THEN "Aircraft does not exist"
    ELSE IF b.airline_id \notin DOMAIN d.airline
    THEN "Airline does not exist"
    ELSE IF d.aircraft[b.aircraft_id].airline_id # b.airline_id
    THEN "Aircraft does not belong to the specified airline"
    ELSE ""

\* slot 1 holds the answer to a flight create, or to an update of a flight
\* that existed when the request arrived
FlightWriteAnswered ==
    \/ Answered("flights.post")
    \/ Answered("flights.put") /\ req[1].id \in DOMAIN req[1].pre.flight

\* C11: a flight create or update is rejected with the reason of the first
\* failing check, in the order required field missing, same airport, time
\* order, departure airport unknown, arrival airport unknown, aircraft
\* unknown, airline unknown, ownership mismatch; it is accepted exactly when
\* no check fails.
C11_FirstReason ==
    LET q == req[1] IN
    FlightWriteAnswered =>
        IF FlightReason(q.pre, q.body) = ""
        THEN q.resp.status = (IF q.method = "POST" THEN 201 ELSE 200)
        ELSE /\ q.resp.status = 400
             /\ q.resp.message = FlightReason(q.pre, q.body)

\* C12: every accepted flight create or update whose body leaves status
\* unset stores the flight with status "Scheduled".
C12_StatusDefault ==
    LET q == req[1]
        id == IF q.method = "POST" THEN q.uuid ELSE q.id
    IN FlightWriteAnswered /\ q.resp.status \in {200, 201}
           /\ q.body.status = UNDEF =>
          /\ id \in DOMAIN db.flight
          /\ db.flight[id].status = "Scheduled"

\* slot 1 holds the answer to a booking create, or to an update of a booking
\* that existed when the request arrived
BookingWriteAnswered ==
    \/ Answered("bookings.post")
    \/ Answered("bookings.put") /\ req[1].id \in DOMAIN req[1].pre.booking

\* C13: every accepted booking create or update whose body leaves
\* booking_status unset stores the booking with booking_status "Confirmed".
C13_BookingStatusDefault ==
    LET q == req[1]
        id == IF q.method = "POST" THEN q.uuid ELSE q.id
    IN BookingWriteAnswered /\ q.resp.status \in {200, 201}
           /\ q.body.booking_status = UNDEF =>
          /\ id \in DOMAIN db.booking
          /\ db.booking[id].booking_status = "Confirmed"

\* C14: a booking's booking_date is the time read by its create request,
\* and no step changes the booking_date of a booking that stays in the store,
\* whatever the body of an update contains.
C14_BookingDateKept ==
    /\ [](Answered("bookings.post") /\ req[1].resp.status = 201 =>
              /\ req[1].uuid \in DOMAIN db.booking
              /\ db.booking[req[1].uuid].booking_date = req[1].now)
    /\ [][\A b \in DOMAIN db.booking \cap DOMAIN db'.booking :
              db'.booking[b].booking_date = db.booking[b].booking_date]_vars

\* an update that carries a booking_date has been accepted for a booking
\* created earlier in the run, which still has the date of its create
C14_Witness ==
    LET q == req[1] IN
    /\ Answered("bookings.put") /\ q.resp.status = 200
    /\ q.id \in DOMAIN q.pre.booking \ DOMAIN SampleData.booking
    /\ q.body.booking_date # UNDEF
    /\ q.id \in DOMAIN db.booking
    /\ db.booking[q.id].booking_date = q.pre.booking[q.id].booking_date
    /\ db.booking[q.id].booking_date # q.now
    /\ db.booking[q.id] # q.pre.booking[q.id]

\* the reason the first failing check of the assignment validation gives for
\* body b against store d, in the order flight, crew member, airline,
\* duplicate; "" when no check fails
AssignReason(d, b) ==
    IF b.flight_id \notin DOMAIN d.flight THEN "Flight does not exist"
    ELSE IF b.crew_member_id \notin DOMAIN d.crew_member
    THEN "Crew member does not exist"
    ELSE IF d.crew_member[b.crew_member_id].airline_id
                # d.flight[b.flight_id].airline_id
    THEN "Crew member does not belong to the airline operating this flight"
    ELSE IF \E x \in d.flight_crew :
                x.flight_id = b.flight_id /\ x.crew_member_id = b.crew_member_id
    THEN "This crew member is already assigned to this flight"
    ELSE ""

\* the assignment body names a flight, a crew member and a role
AssignComplete(b) ==
    \A f \in {"flight_id", "crew_member_id", "role"} : b[f] \notin {UNDEF, ""}

\* C15: a crew assignment with its three fields present is rejected with the
\* reason of the first failing check, in the order flight unknown, crew member
\* unknown, airline mismatch, pair already assigned, and changes nothing;
\* otherwise it adds exactly the row (flight_id, crew_member_id, role) and is
\* answered 201.
C15_AssignReason ==
    LET q == req[1]
        row == [flight_id |-> q.body.flight_id,
                crew_member_id |-> q.body.crew_member_id,
                role |-> q.body.role]
    IN Answered("crew.assign") /\ AssignComplete(q.body) =>
        IF AssignReason(q.pre, q.body) = ""
        THEN /\ q.resp.status = 201
             /\ row \notin q.pre.flight_crew
             /\ db = [q.pre EXCEPT !.flight_crew = q.pre.flight_crew \cup {row}]
        ELSE /\ q.resp.status = 400
             /\ q.resp.message = AssignReason(q.pre, q.body)
             /\ db = q.pre

\* a crew member created earlier in the run has been assigned to a flight
C15_Witness ==
    LET q == req[1] IN
    /\ Answered("crew.assign") /\ q.resp.status = 201
    /\ q.body.crew_member_id \notin DOMAIN SampleData.crew_member
    /\ Cardinality(db.flight_crew) = Cardinality(q.pre.flight_crew) + 1

\* C16: under any sequence and interleaving of concurrent crew assignments,
\* flight_crew holds at most one row for each (flight_id, crew_member_id).
C16_AssignmentsUnique ==
    \A x, y \in db.flight_crew :
        x.flight_id = y.flight_id /\ x.crew_member_id = y.crew_member_id => x = y

\* two assignments of the same pair both passed the duplicate test; the
\* store accepted one insert and refused the other
C16_Witness ==
    \E r1, r2 \in Slots :
        /\ req[r1].pc = "done" /\ req[r2].pc = "done"
        /\ req[r1].body.flight_id = req[r2].body.flight_id
        /\ req[r1].body.crew_member_id = req[r2].body.crew_member_id
        /\ req[r1].resp.status = 201
        /\ req[r2].resp.status = 500
        /\ Cardinality(db.flight_crew) = 1

\* C17: a DELETE request to the assignment route that names the flight and
\* the crew member of an existing flight_crew row reaches the removal handler,
\* removes exactly that row and is answered 200.
C17_UnassignReachable ==
    LET q == req[1] IN
    /\ q.pc = "done" /\ q.method = "DELETE" /\ q.mount = "/crew-members"
    /\ q.id = "assign"
    /\ {"flight_id", "crew_member_id"} \subseteq DOMAIN q.body
    /\ \E x \in q.pre.flight_crew :
           /\ x.flight_id = q.body.flight_id
           /\ x.crew_member_id = q.body.crew_member_id
    => /\ Route(q) = "crew.unassign"
       /\ q.resp.status = 200
       /\ db = [q.pre EXCEPT !.flight_crew =
                    {x \in q.pre.flight_crew :
                        ~(/\ x.flight_id = q.body.flight_id
                          /\ x.crew_member_id = q.body.crew_member_id)}]

\* the body's field f names a record that table t of store d does not hold
Dangling(d, b, f, t) == b[f] \notin {UNDEF, ""} /\ b[f] \notin DOMAIN d[t]

\* slot 1 holds the answer to a write that passed the required-field and body
\* checks and names a record that did not exist when the request arrived
UnresolvedReference ==
    LET q == req[1] IN
    \/ /\ BookingWriteAnswered
       /\ q.body.flight_id \notin {UNDEF, ""}
       /\ q.body.passenger_id \notin {UNDEF, ""}
       /\ \/ Dangling(q.pre, q.body, "flight_id", "flight")
          \/ Dangling(q.pre, q.body, "passenger_id", "passenger")
    \/ /\ FlightWriteAnswered
       /\ FlightReason(q.pre, q.body) \in
              {"Departure airport does not exist",
               "Arrival airport does not exist",
               "Aircraft does not exist", "Airline does not exist"}
    \/ /\ \/ Answered("crew.post")
          \/ Answered("crew.put") /\ q.id \in DOMAIN q.pre.crew_member
       /\ \A f \in {"first_name", "last_name", "position"} :
              q.body[f] \notin {UNDEF, ""}
       /\ Dangling(q.pre, q.body, "airline_id", "airline")
    \/ /\ Answered("crew.assign")
       /\ AssignComplete(q.body)
       /\ \/ Dangling(q.pre, q.body, "flight_id", "flight")
          \/ Dangling(q.pre, q.body, "crew_member_id", "crew_member")

\* C18: a write that names a record which does not exist (a booking's flight
\* or passenger, a flight's airport, aircraft or airline, a crew member's
\* airline, an assignment's flight or crew member) is answered 404.
C18_UnresolvedIs404 == UnresolvedReference => req[1].resp.status = 404

\* C19: under any interleaving of concurrent booking creates for flights and
\* passengers that exist, a create whose row is not stored, whether the seat
\* query or the unique_flight_seat constraint refused it, is answered 400 with
\* the seat-taken message.
C19_RaceLoserAnswer ==
    \A r \in Slots :
        LET q == req[r] IN
        /\ q.pc = "done" /\ Route(q) = "bookings.post"
        /\ q.uuid \notin DOMAIN db.booking
        => /\ q.resp.status = 400
           /\ q.resp.message = SeatTakenMsg

\* how many rows of table t of store d hold id in column f
Referring(d, t, f, id) ==
    Cardinality({x \in DOMAIN d[t] : d[t][x][f] = id})

\* table t without the row id
Without(t, id) == [x \in DOMAIN t \ {id} |-> t[x]]

\* the delete answered in slot 1 was refused with the counts in data and
\* changed nothing when blocked, and has otherwise removed row id of table t
DeleteGuarded(t, blocked, data) ==
    LET q == req[1] IN
    IF blocked
    THEN /\ q.resp.status = 400
         /\ q.resp.data = data
         /\ db = q.pre
    ELSE /\ q.resp.status = 200
         /\ db = [q.pre EXCEPT ![t] = Without(q.pre[t], q.id)]

\* C20: a delete of an existing aircraft with flights, of an existing airport
\* with departing or arriving flights, or of an existing passenger with
\* bookings is answered 400 with the count of each relationship and leaves the
\* store as it was; with every count zero the row is removed and the answer
\* is 200.
C20_DeleteBlocked ==
    LET q == req[1]
        flights == Referring(q.pre, "flight", "aircraft_id", q.id)
        departing == Referring(q.pre, "flight", "departure_airport_id", q.id)
        arriving == Referring(q.pre, "flight", "arrival_airport_id", q.id)
        bookings == Referring(q.pre, "booking", "passenger_id", q.id)
    IN
    /\ Answered("aircraft.delete") /\ q.id \in DOMAIN q.pre.aircraft
           => DeleteGuarded("aircraft", flights > 0, [flights |-> flights])
    /\ Answered("airports.delete") /\ q.id \in DOMAIN q.pre.airport
           => DeleteGuarded("airport", departing > 0 \/ arriving > 0,
                            [departing |-> departing, arriving |-> arriving])
    /\ Answered("passengers.delete") /\ q.id \in DOMAIN q.pre.passenger
           => DeleteGuarded("passenger", bookings > 0, [bookings |-> bookings])

\* the delete of an airport that one flight leaves and none reaches has been
\* refused
C20_Witness ==
    /\ Answered("airports.delete")
    /\ req[1].resp.status = 400
    /\ req[1].resp.data = [departing |-> 1, arriving |-> 0]
    /\ req[1].id \in DOMAIN db.airport

\* C21: when every statement is answered with success or with an error,
\* every request the server has taken is eventually answered; a stats request
\* whose sub-query fails and whose ROLLBACK fails too is answered 500.
C21_EveryRequestAnswered ==
    \A r \in Slots : (req[r].pc # "idle") ~> (req[r].pc = "done")

\* C22: BEGIN, the sub-queries and COMMIT or ROLLBACK of an answered stats
\* request all ran on one connection, and once no request is being handled no
\* connection of the pool is inside an open transaction.
C22_StatsOneTransaction ==
    /\ \A r \in Slots :
           req[r].pc = "done" /\ req[r].mount = "/api/stats"
               => Cardinality(req[r].loc.used) = 1
    /\ (\A r \in Slots : req[r].pc \in {"idle", "done"})
           => \A c \in Conns : ~pool[c].tx

\* C23: with requests handled one at a time and every statement reaching
\* the store, no request is answered 500: a candidate that breaks a rule or
\* a constraint of the schema is answered 400 or 404 by the handler's own
\* checks, with the store as it was.
C23_NoServerError ==
    LET q == req[1] IN
    q.pc = "done" =>
        /\ q.resp.status \in {200, 201, 400, 404}
        /\ q.resp.status \in {400, 404} => db = q.pre

\* the time-order check of body b is reached: every required field is
\* present and the two airports differ
TimeCheckReached(b) ==
    /\ \A f \in FlightRequired : b[f] \notin {UNDEF, ""}
    /\ b.departure_airport_id # b.arrival_airport_id

\* both times of body b are instants and departure is strictly the earlier
TimesInOrder(b) ==
    /\ JsDate(b.departure_time) # NaN
    /\ JsDate(b.arrival_time) # NaN
    /\ JsDate(b.departure_time) < JsDate(b.arrival_time)

\* C24: a flight create or update that reaches the time-order check is
\* rejected with 400 "Departure time must be before arrival time" exactly
\* when its times, as instants, are not in strict order: equal, inverted, or
\* one of them is no instant.
C24_TimeOrder ==
    LET q == req[1] IN
    FlightWriteAnswered /\ TimeCheckReached(q.body) =>
        ((/\ q.resp.status = 400
          /\ q.resp.message = "Departure time must be before arrival time")
            <=> ~TimesInOrder(q.body))

\* the table a full-update route writes
UpdatedTable ==
    [x \in {"airlines.put", "airports.put", "aircraft.put", "flights.put",
            "passengers.put", "bookings.put", "crew.put"} |->
        CASE x = "airlines.put" -> "airline"
          [] x = "airports.put" -> "airport"
          [] x = "aircraft.put" -> "aircraft"
          [] x = "flights.put" -> "flight"
          [] x = "passengers.put" -> "passenger"
          [] x = "bookings.put" -> "booking"
          [] x = "crew.put" -> "crew_member"]

\* the columns of table t an update may write
Updatable(t, row) ==
    IF t = "booking" THEN DOMAIN row \ {"booking_date"} ELSE DOMAIN row

\* the value column c holds when the body gives v for it: null when the
\* field is left out, the instant for a time, the integer for a year, v
\* itself otherwise
Given(c, v) ==
    IF v = UNDEF THEN NULL
    ELSE IF c \in {"departure_time", "arrival_time"} THEN JsDate(v)
    ELSE IF c = "founded_year" THEN PgInteger(v)
    ELSE v

\* slot 1 holds the 200 answer to a full update
UpdateAccepted ==
    /\ req[1].pc = "done"
    /\ Route(req[1]) \in DOMAIN UpdatedTable
    /\ req[1].resp.status = 200

\* C25: after an accepted update every updatable column of the target row
\* holds the value the body gives for it, null when the body leaves the
\* field out, and nothing else in the store has changed.
C25_FullReplace ==
    LET q == req[1]
        t == UpdatedTable[Route(q)]
    IN UpdateAccepted =>
        /\ q.id \in DOMAIN db[t]
        /\ \A c \in Updatable(t, db[t][q.id]) :
               db[t][q.id][c] = Given(c, q.body[c])
        /\ db = [q.pre EXCEPT ![t] = [@ EXCEPT ![q.id] = db[t][q.id]]]
        /\ t = "booking" =>
               db[t][q.id].booking_date = q.pre[t][q.id].booking_date

\* slot 1 holds a delete of a crew member that existed when the request
\* arrived
DeletingCrew ==
    /\ req[1].pc # "idle"
    /\ Route(req[1]) = "crew.delete"
    /\ req[1].id \in DOMAIN req[1].pre.crew_member

\* the flight_crew rows of store d that name crew member id
AssignedTo(d, id) == {x \in d.flight_crew : x.crew_member_id = id}

C27_ReferencesResolve ==
    /\ \A b \in DOMAIN db.booking :
           /\ db.booking[b].flight_id \in DOMAIN db.flight
           /\ db.booking[b].passenger_id \in DOMAIN db.passenger
    /\ \A f \in DOMAIN db.flight :
           /\ db.flight[f].departure_airport_id \in DOMAIN db.airport
           /\ db.flight[f].arrival_airport_id \in DOMAIN db.airport
           /\ db.flight[f].aircraft_id \in DOMAIN db.aircraft
           /\ db.flight[f].airline_id \in DOMAIN db.airline
    /\ \A c \in DOMAIN db.crew_member :
           db.crew_member[c].airline_id \in DOMAIN db.airline
    /\ \A a \in DOMAIN db.aircraft :
           db.aircraft[a].airline_id # NULL
               => db.aircraft[a].airline_id \in DOMAIN db.airline
    /\ \A x \in db.flight_crew :
           /\ x.flight_id \in DOMAIN db.flight
           /\ x.crew_member_id \in DOMAIN db.crew_member

\* a row of store d refers to row id of the table the router at mount
\* deletes from
Referred(d, mount, id) ==
    CASE mount = "/airlines" ->
           \/ \E a \in DOMAIN d.aircraft : d.aircraft[a].airline_id = id
           \/ \E f \in DOMAIN d.flight : d.flight[f].airline_id = id
           \/ \E c \in DOMAIN d.crew_member : d.crew_member[c].airline_id = id
      [] mount = "/aircraft" ->
           \E f \in DOMAIN d.flight : d.flight[f].aircraft_id = id
      [] mount = "/airports" ->
           \E f \in DOMAIN d.flight :
               \/ d.flight[f].departure_airport_id = id
               \/ d.flight[f].arrival_airport_id = id
      [] mount = "/passengers" ->
           \E b \in DOMAIN d.booking : d.booking[b].passenger_id = id
      [] mount = "/flights" ->
           \/ \E b \in DOMAIN d.booking : d.booking[b].flight_id = id
           \/ \E x \in d.flight_crew : x.flight_id = id
      [] OTHER -> FALSE

\* C28: under any interleaving of a delete of an airline, aircraft, airport,
\* passenger or flight with a concurrent create that refers to the row being
\* deleted, once the delete has been answered 200 no stored row refers to the
\* deleted row.
C28_NoDanglingAfterDelete ==
    \A r \in Slots :
        LET q == req[r] IN
        q.pc = "done" /\ q.method = "DELETE" /\ q.resp.status = 200
            => ~Referred(db, q.mount, q.id)

\* a flight delete has been answered 200 although a concurrent booking create
\* for that flight stored its row and was answered 201
C28_Witness ==
    \E r, o \in Slots :
        /\ req[r].pc = "done" /\ req[o].pc = "done"
        /\ req[r].method = "DELETE" /\ req[r].mount = "/flights"
        /\ req[r].resp.status = 200
        /\ req[o].method = "POST" /\ req[o].mount = "/bookings"
        /\ req[o].resp.status = 201
        /\ req[o].body.flight_id = req[r].id


\* C29: a flight delete answered with an error (400, 404 or 500) leaves the
\* flight and all of its flight_crew rows in the store as they were when the
\* request arrived
C29_FlightDeleteAllOrNothing ==
    \A r \in Slots :
        LET q == req[r] IN
        /\ q.pc = "done" /\ q.method = "DELETE" /\ q.mount = "/flights"
        /\ q.id \in Ids(q.pre.flight)
        /\ q.resp.status \in {400, 404, 500}
        => /\ q.id \in Ids(db.flight)
           /\ db.flight[q.id] = q.pre.flight[q.id]
           /\ CrewRowsOfFlight(q.pre, q.id) \subseteq db.flight_crew


\* the fields a full-update route requires
RequiredOf(x) ==
    CASE x \in {"airlines.put", "airports.put"} -> {"name"}
      [] x = "aircraft.put" -> {"registration_number", "model"}
      [] x = "flights.put" -> FlightRequired
      [] x = "passengers.put" -> {"first_name", "last_name", "email"}
      [] x = "bookings.put" -> {"flight_id", "passenger_id"}
      [] x = "crew.put" -> {"first_name", "last_name", "position", "airline_id"}

\* the fields of its body that name a row of another table, with the table
ReferencesOf(x) ==
    CASE x \in {"airlines.put", "airports.put", "passengers.put"} -> {}
      [] x \in {"aircraft.put", "crew.put"} -> {<<"airline_id", "airline">>}
      [] x = "flights.put" ->
           {<<"departure_airport_id", "airport">>,
            <<"arrival_airport_id", "airport">>,
            <<"aircraft_id", "aircraft">>, <<"airline_id", "airline">>}
      [] x = "bookings.put" ->
           {<<"flight_id", "flight">>, <<"passenger_id", "passenger">>}

\* slot 1 holds the answer to a full update of an id that was not in the
\* table when the request arrived
UpdateOfMissing ==
    /\ req[1].pc = "done"
    /\ Route(req[1]) \in DOMAIN UpdatedTable
    /\ req[1].id \notin DOMAIN req[1].pre[UpdatedTable[Route(req[1])]]

\* its body passes the required-field and the reference checks
ChecksPassed ==
    LET q == req[1] IN
    /\ \A f \in RequiredOf(Route(q)) : q.body[f] \notin {UNDEF, ""}
    /\ \A p \in ReferencesOf(Route(q)) : ~Dangling(q.pre, q.body, p[1], p[2])

\* C30: a full update addressed to an id that is not in the store leaves
\* the store as it was, and is answered 404 when its body passes the
\* required-field and reference checks.
C30_UpdateOfMissing ==
    UpdateOfMissing =>
        /\ db = req[1].pre
        /\ ChecksPassed => req[1].resp.status = 404

====
